---- MODULE Spec2Model ----
(***************************************************************************)
(* Path-indexed reactive store (jozefini/devlab-store).                    *)
(*                                                                         *)
(* The single-object store, class CreateStateStore of src/src/index.tsx    *)
(* (Spec); the keyed-collection store, class CreateMapStore of             *)
(* src/unnamed/part_001 (SpecMap; SpecStores is a store of either class);  *)
(* the context-scoped store, createScopedStore of src/src/index.tsx        *)
(* (SpecScoped); the store with a debug bridge, class CreateStore of       *)
(* src/unnamed/part_000 (SpecDev); CreateStateStore over a heap of         *)
(* objects with identity, where a value handed to the store may be one     *)
(* an earlier get returned (SpecGraph); the two classes with callbacks     *)
(* that call the store from inside a notification (SpecReentrant).         *)
(*                                                                         *)
(* Representation.                                                         *)
(*  - A JavaScript string is the sequence of its characters, each a        *)
(*    one-character TLA+ string: "u.a" is <<"u", ".", "a">>.  split and    *)
(*    the template-literal joins of getCachedPath are computed on these.   *)
(*  - A JavaScript value is a record tagged by k: undefined, null, NaN,    *)
(*    a number [k |-> "num", n], or a plain object [k |-> "obj", f] whose  *)
(*    f maps each own key (a string) to its value.  Except in SpecGraph,   *)
(*    values handed to the store are fresh literals: no object is shared   *)
(*    between two slots, so a tree is its own value.                       *)
(*  - A Map or Set that the code iterates is a sequence in insertion       *)
(*    order; a Map that is only looked up is a function.                   *)
(*  - A TypeError raised by a property read on null or by a property       *)
(*    write on a primitive (class bodies are strict code) ends the call:   *)
(*    last.threw records it and the writes made before it stay.            *)
(***************************************************************************)
EXTENDS Integers, Sequences, FiniteSets, TLC

VARIABLES
    data,             \* this.data: the State Tree
    initialData,      \* this.initialData: the Initial Snapshot
    fallbackData,     \* this.fallbackData: the Fallback Tree
    pathCache,        \* this.pathCache: path -> PathCache
    propertyCache,    \* this.propertyCache: path -> PropertyCache
    dependencyCache,  \* this.dependencyCache: path -> Set of paths
    subscribers,      \* this.subscribers: Map path -> Set of callbacks
    calls,            \* callbacks invoked by the last call, in order
    fnArgs,           \* arguments the last call passed to its transformation
    last,             \* the last call: operation, arguments, outcome
    prev,             \* the store as it was when the last call started
    config,           \* the arguments the constructor was given
    resets,           \* number of reset() calls made so far
    released,         \* subscriptions whose unsubscribe function was called
    instanceOf,       \* the class the store is an instance of
    steps,            \* number of calls made so far
    \* CreateMapStore only
    keysSubscribers,  \* this.keysSubscribers: Set of callbacks
    sizeSubscribers,  \* this.sizeSubscribers: Set of callbacks
    cachedKeys,       \* this.cachedKeys
    countCalls,       \* key-list and size callbacks invoked by the last call
    \* CreateStore only
    devTools,         \* this.devTools: the bridge connection, or null
    pauseDevTools,    \* this.pauseDevTools
    sent,             \* devTools.send calls made by the last call, in order
    \* createScopedStore only
    heap,             \* the objects allocated so far, by address
    mounted,          \* the store of each mounted Provider, in mount order
    scope             \* the last useStore() call: where, and its outcome

storeVars == <<data, initialData, fallbackData, pathCache, propertyCache,
               dependencyCache, subscribers, calls, fnArgs, last, prev,
               config, resets, released, instanceOf, steps>>
keyedVars == <<keysSubscribers, sizeSubscribers, cachedKeys, countCalls>>
devToolsVars == <<devTools, pauseDevTools, sent>>
scopedVars == <<heap, mounted, scope>>

vars == <<storeVars, keyedVars, devToolsVars, scopedVars>>

-----------------------------------------------------------------------------
(* Bounds *)

\* Calls made on one store.
MaxSteps == 3

-----------------------------------------------------------------------------
(* JavaScript values *)

Undef == [k |-> "undefined"]
Null == [k |-> "null"]
NaN == [k |-> "nan"]
Num(n) == [k |-> "num", n |-> n]
Obj(f) == [k |-> "obj", f |-> f]
EmptyObj == Obj(<<>>)

\* v !== undefined && v !== null
IsNullish(v) == v.k \in {"undefined", "null"}

\* ToBoolean(v)
Truthy(v) ==
    \/ v.k = "obj"
    \/ v.k = "num" /\ v.n # 0

\* v[key] for a v that is neither undefined nor null
Prop(v, key) ==
    IF v.k = "obj" /\ key \in DOMAIN v.f THEN v.f[key] ELSE Undef

\* a && a[key]
AndProp(a, key) == IF Truthy(a) THEN Prop(a, key) ELSE a

\* o[key] = v on an object o
Put(o, key, v) ==
    Obj([x \in DOMAIN o.f \cup {key} |-> IF x = key THEN v ELSE o.f[x]])

\* delete o[key] on an object o
Del(o, key) == Obj([x \in DOMAIN o.f \ {key} |-> o.f[x]])

RECURSIVE deepClone(_)
deepClone(obj) ==
    IF obj.k # "obj"
    THEN obj
    ELSE Obj([key \in DOMAIN obj.f |-> deepClone(obj.f[key])])

-----------------------------------------------------------------------------
(* Strings and paths *)

Dot == "."

\* 'u', 'u.a', ... as character sequences
S1(a) == <<a>>
S2(a, b) == <<a, Dot, b>>
S3(a, b, c) == <<a, Dot, b, Dot, c>>

\* path.split('.')
RECURSIVE split(_)
split(s) ==
    IF \A i \in 1..Len(s) : s[i] # Dot
    THEN <<s>>
    ELSE LET i == CHOOSE j \in 1..Len(s) :
                      s[j] = Dot /\ \A h \in 1..(j - 1) : s[h] # Dot
         IN <<SubSeq(s, 1, i - 1)>> \o split(SubSeq(s, i + 1, Len(s)))

\* keys.reduce(...): allPaths[index] is `${allPaths[index - 1]}.${key}`
RECURSIVE allPathsOf(_, _)
allPathsOf(keys, index) ==
    IF index = 0 THEN <<>>
    ELSE IF index = 1 THEN <<keys[1]>>
    ELSE LET acc == allPathsOf(keys, index - 1)
         IN Append(acc, acc[index - 1] \o <<Dot>> \o keys[index])

\* The body of getCachedPath's miss branch: the parse of a path.
parsePath(path) ==
    LET keys == split(path)
        allPaths == allPathsOf(keys, Len(keys))
    IN [parentKeys |-> SubSeq(keys, 1, Len(keys) - 1),
        parentPaths |-> IF Len(allPaths) > 1
                        THEN SubSeq(allPaths, 1, Len(allPaths) - 1)
                        ELSE <<>>,
        currentKey |-> keys[Len(keys)]]

SeqHas(s, x) == \E i \in 1..Len(s) : s[i] = x

\* Set.add on an insertion-ordered set
SetAdd(s, x) == IF SeqHas(s, x) THEN s ELSE Append(s, x)

\* Set.delete on an insertion-ordered set
SetDelete(s, x) == SelectSeq(s, LAMBDA y : y # x)

\* getCachedPath(path): the value it returns
getCachedPath(pc, path) ==
    IF path \in DOMAIN pc THEN pc[path] ELSE parsePath(path)

\* getCachedPath(path): this.pathCache after the call
pathCacheAfter(pc, path) ==
    IF path \in DOMAIN pc
    THEN pc
    ELSE [p \in DOMAIN pc \cup {path} |->
            IF p = path THEN parsePath(path) ELSE pc[p]]

\* getCachedPath(path): this.dependencyCache after the call
\* The dependencyCache registration as it would be if it registered the path
\* under its immediate parent only
dependencyCacheAfter_ImmediateParent(dc, pc, path) ==
    IF path \in DOMAIN pc
    THEN dc
    ELSE LET parents == parsePath(path).parentPaths
             ps == IF parents = <<>> THEN {} ELSE {parents[Len(parents)]}
         IN [q \in DOMAIN dc \cup ps |->
               IF q \in ps
               THEN SetAdd(IF q \in DOMAIN dc THEN dc[q] ELSE <<>>, path)
               ELSE dc[q]]

dependencyCacheAfter(dc, pc, path) ==
    IF path \in DOMAIN pc
    THEN dc
    ELSE LET parents == parsePath(path).parentPaths
             ps == {parents[i] : i \in 1..Len(parents)}
         IN [p \in DOMAIN dc \cup ps |->
               IF p \in ps
               THEN SetAdd(IF p \in DOMAIN dc THEN dc[p] ELSE <<>>, path)
               ELSE dc[p]]

-----------------------------------------------------------------------------
(* Property Locator *)

\* The loop of getCachedProperty over parentKeys.  pp, fp and ip are
\* parentProp, fallbackProp and initialProp; the break leaves fp and ip
\* where they were when the State Tree walk stopped.
RECURSIVE walkParentKeys(_, _, _, _)
walkParentKeys(pp, fp, ip, parentKeys) ==
    IF parentKeys = <<>>
    THEN [parentProp |-> pp, fallbackProp |-> fp, initialProp |-> ip]
    ELSE IF IsNullish(pp)
    THEN [parentProp |-> Undef, fallbackProp |-> fp, initialProp |-> ip]
    ELSE LET parentKey == Head(parentKeys)
         IN walkParentKeys(
                Prop(pp, parentKey),
                IF ~IsNullish(fp) THEN Prop(fp, parentKey) ELSE fp,
                IF ~IsNullish(ip) THEN Prop(ip, parentKey) ELSE ip,
                Tail(parentKeys))

\* getCachedProperty(path) on a store with State Tree d, Fallback Tree fb,
\* Initial Snapshot ini, path cache pc and property cache prc.
getCachedProperty(d, fb, ini, pc, prc, path) ==
    IF path \in DOMAIN prc
    THEN prc[path]
    ELSE walkParentKeys(d, fb, ini, getCachedPath(pc, path).parentKeys)

-----------------------------------------------------------------------------
(* Reads and writes of the State Tree *)

\* get(path): the value returned
get(d, fb, ini, pc, prc, path) ==
    LET currentKey == getCachedPath(pc, path).currentKey
        prop == getCachedProperty(d, fb, ini, pc, prc, path)
        originalValue == AndProp(prop.parentProp, currentKey)
    IN IF originalValue # Undef
       THEN originalValue
       ELSE AndProp(prop.fallbackProp, currentKey)

\* parentProp[key] = v, parentProp being the object reached from node by keys
RECURSIVE assignAt(_, _, _, _)
assignAt(node, keys, key, v) ==
    IF keys = <<>>
    THEN Put(node, key, v)
    ELSE Put(node, Head(keys),
             assignAt(node.f[Head(keys)], Tail(keys), key, v))

\* delete parentProp[key], parentProp being the object reached from node by keys
RECURSIVE deleteAt(_, _, _)
deleteAt(node, keys, key) ==
    IF keys = <<>>
    THEN Del(node, key)
    ELSE Put(node, Head(keys), deleteAt(node.f[Head(keys)], Tail(keys), key))

\* The materializing branch of set: the loop over parentPaths starting at
\* parent, then parent[currentKey] = value.  Yields parent after the writes
\* and whether a TypeError ended them.
RECURSIVE materialize(_, _, _, _)
materialize(parent, parentPaths, currentKey, value) ==
    IF parent.k # "obj"
    THEN [node |-> parent, threw |-> TRUE]
    ELSE IF parentPaths = <<>>
    THEN [node |-> Put(parent, currentKey, value), threw |-> FALSE]
    ELSE LET parentKey == Head(parentPaths)
             child == IF Prop(parent, parentKey) = Undef
                      THEN EmptyObj
                      ELSE Prop(parent, parentKey)
             r == materialize(child, Tail(parentPaths), currentKey, value)
         IN [node |-> Put(parent, parentKey, r.node), threw |-> r.threw]

\* set(path, value): this.data after the assignment, and whether it threw
setData(d, fb, ini, pc, prc, path, value) ==
    LET info == getCachedPath(pc, path)
        parentProp == getCachedProperty(d, fb, ini, pc, prc, path).parentProp
    IN IF ~Truthy(parentProp)
       THEN materialize(d, info.parentPaths, info.currentKey, value)
       ELSE IF parentProp.k = "obj"
       THEN [node |-> assignAt(d, info.parentKeys, info.currentKey, value),
             threw |-> FALSE]
       ELSE [node |-> d, threw |-> TRUE]

\* A transformation passed to update: "inc" is prev => prev + 1 (on the
\* values it is applied to: numbers, null, undefined and NaN), "id" is
\* prev => prev.
applyFn(fn, arg) ==
    IF fn = "inc"
    THEN CASE arg.k = "num" -> Num(arg.n + 1)
           [] arg.k = "null" -> Num(1)
           [] OTHER -> NaN
    ELSE arg

\* update as it would be if, with the parent container missing, it
\* materialized the ancestors and assigned the way set does
updateData_Materializes(d, fb, ini, pc, prc, path, fn, value) ==
    LET info == getCachedPath(pc, path)
        parentProp == getCachedProperty(d, fb, ini, pc, prc, path).parentProp
        current == IF Truthy(parentProp)
                   THEN Prop(parentProp, info.currentKey)
                   ELSE Undef
        next == IF fn # "none" THEN applyFn(fn, current) ELSE value
        r == setData(d, fb, ini, pc, prc, path, next)
    IN [node |-> r.node, threw |-> r.threw, returned |-> FALSE,
        args |-> IF fn # "none" THEN <<current>> ELSE <<>>]

\* update as it would be if its transformation received get(path), which
\* falls back to the Fallback Tree, instead of parentProp[currentKey]
updateData_PassesGet(d, fb, ini, pc, prc, path, fn, value) ==
    LET info == getCachedPath(pc, path)
        parentProp == getCachedProperty(d, fb, ini, pc, prc, path).parentProp
        current == get(d, fb, ini, pc, prc, path)
        next == IF fn # "none" THEN applyFn(fn, current) ELSE value
    IN IF ~Truthy(parentProp)
       THEN [node |-> d, threw |-> FALSE, returned |-> TRUE, args |-> <<>>]
       ELSE [node |-> IF parentProp.k = "obj"
                      THEN assignAt(d, info.parentKeys, info.currentKey, next)
                      ELSE d,
             threw |-> parentProp.k # "obj",
             returned |-> FALSE,
             args |-> IF fn # "none" THEN <<current>> ELSE <<>>]

\* update(path, valueOrFn): whether the call returns early, the arguments
\* its transformation received, this.data afterwards, whether it threw.
updateData(d, fb, ini, pc, prc, path, fn, value) ==
    LET info == getCachedPath(pc, path)
        parentProp == getCachedProperty(d, fb, ini, pc, prc, path).parentProp
        current == Prop(parentProp, info.currentKey)
        next == IF fn # "none" THEN applyFn(fn, current) ELSE value
    IN IF ~Truthy(parentProp)
       THEN [node |-> d, threw |-> FALSE, returned |-> TRUE, args |-> <<>>]
       ELSE [node |-> IF parentProp.k = "obj"
                      THEN assignAt(d, info.parentKeys, info.currentKey, next)
                      ELSE d,
             threw |-> parentProp.k # "obj",
             returned |-> FALSE,
             args |-> IF fn # "none" THEN <<current>> ELSE <<>>]

\* remove(path): whether the call returns early, and this.data afterwards
removeData(d, fb, ini, pc, prc, path) ==
    LET info == getCachedPath(pc, path)
        parentProp == getCachedProperty(d, fb, ini, pc, prc, path).parentProp
    IN IF ~Truthy(parentProp)
       THEN [node |-> d, returned |-> TRUE]
       ELSE [node |-> IF parentProp.k = "obj"
                      THEN deleteAt(d, info.parentKeys, info.currentKey)
                      ELSE d,
             returned |-> FALSE]

\* reset() as it would be if it emptied the tree instead of restoring it
resetData_Empty(ini) == EmptyObj

\* reset(): this.data afterwards
resetData(ini) == deepClone(ini)

-----------------------------------------------------------------------------
(* Subscriber Registry *)

\* Index of path's entry in the subscribers Map, 0 if it has none
entryOf(subs, path) ==
    IF \E i \in 1..Len(subs) : subs[i].path = path
    THEN CHOOSE i \in 1..Len(subs) : subs[i].path = path
    ELSE 0

\* this.subscribers.get(path), an empty sequence standing for undefined
subscribersOf(subs, path) ==
    IF entryOf(subs, path) = 0 THEN <<>> ELSE subs[entryOf(subs, path)].cbs

addSubscriber(subs, path, callback) ==
    LET withEntry == IF entryOf(subs, path) = 0
                     THEN Append(subs, [path |-> path, cbs |-> <<>>])
                     ELSE subs
        i == entryOf(withEntry, path)
    IN [withEntry EXCEPT ![i].cbs = SetAdd(@, callback)]

\* removeSubscriber as it would be if it left the callback in the registry
removeSubscriber_Keeps(subs, path, callback) == subs

\* removeSubscriber as it would be without its size check: the emptied set
\* stays in the Map
removeSubscriber_LeavesEmpty(subs, path, callback) ==
    LET i == entryOf(subs, path)
    IN IF i = 0 THEN subs ELSE [subs EXCEPT ![i].cbs = SetDelete(@, callback)]

removeSubscriber(subs, path, callback) ==
    LET i == entryOf(subs, path)
    IN IF i = 0
       THEN subs
       ELSE LET left == SetDelete(subs[i].cbs, callback)
            IN IF Len(left) = 0
               THEN SubSeq(subs, 1, i - 1) \o SubSeq(subs, i + 1, Len(subs))
               ELSE [subs EXCEPT ![i].cbs = left]

\* notifySubscribers(path): the callbacks it invokes, in order
notifySubscribers(subs, path) ==
    LET cbs == subscribersOf(subs, path)
    IN [i \in 1..Len(cbs) |-> [path |-> path, cb |-> cbs[i]]]

\* notifySubscribers over a sequence of paths, in order
RECURSIVE notifyEach(_, _)
notifyEach(subs, paths) ==
    IF paths = <<>>
    THEN <<>>
    ELSE notifySubscribers(subs, Head(paths)) \o notifyEach(subs, Tail(paths))

\* The notify branch of reset as it would be if it stopped after the first
\* subscribed path
notifyAll_FirstPathOnly(subs) ==
    notifyEach(subs, [i \in 1..(IF Len(subs) > 0 THEN 1 ELSE 0) |-> subs[i].path])

\* The notify branch of reset: subscribers.forEach over the Map's entries
notifyAll(subs) ==
    notifyEach(subs, [i \in 1..Len(subs) |-> subs[i].path])

notifyNestedSubscribers(subs, pc, path) ==
    notifySubscribers(subs, path)
        \o notifyEach(subs, getCachedPath(pc, path).parentPaths)

notifyDependencies(subs, dc, path) ==
    IF path \in DOMAIN dc THEN notifyEach(subs, dc[path]) ELSE <<>>

\* The notify branch shared by set, update and remove
notifyMutation(subs, pc, dc, path) ==
    notifyNestedSubscribers(subs, pc, path) \o notifyDependencies(subs, dc, path)

-----------------------------------------------------------------------------
(* Inputs *)

u == "u"
a == "a"
p == "p"

\* { [key]: v }
Field(key, v) == Put(EmptyObj, S1(key), v)

\* Paths the callers use: 'u', 'u.a', 'u.p', 'u.p.a'
Paths == {S1(u), S2(u, a), S2(u, p), S3(u, p, a)}

\* Values the callers write: 31, null, { a: 5 }
Values == {Num(31), Null, Field(a, Num(5))}

\* Second argument of update: the value 31, prev => prev + 1, or prev => prev
Updaters ==
    {[fn |-> "none", value |-> Num(31)],
     [fn |-> "inc", value |-> Undef],
     [fn |-> "id", value |-> Undef]}

Callbacks == {"c1", "c2"}

\* Constructor arguments ({ initialData, fallbackData }); Undef is an omitted one
Configs ==
    { \* { u: { a: 30, p: { a: 1 } } } with fallback { u: { a: 0 } }
      [initialData |-> Field(u, Put(Field(a, Num(30)), S1(p), Field(a, Num(1)))),
       fallbackData |-> Field(u, Field(a, Num(0)))],
      \* no initial data, with fallback { u: { a: 0, p: { a: 7 } } }
      [initialData |-> Undef,
       fallbackData |-> Field(u, Put(Field(a, Num(0)), S1(p), Field(a, Num(7))))],
      \* { u: null } with fallback { u: null }
      [initialData |-> Field(u, Null), fallbackData |-> Field(u, Null)] }

\* x || {}
OrEmpty(x) == IF Truthy(x) THEN x ELSE EmptyObj

-----------------------------------------------------------------------------
(* The store *)

NoCall ==
    [op |-> "new", path |-> <<>>, value |-> Undef, fn |-> "none",
     notify |-> FALSE, threw |-> FALSE, returned |-> FALSE, result |-> Undef]

Snapshot ==
    [data |-> data, pathCache |-> pathCache,
     dependencyCache |-> dependencyCache, subscribers |-> subscribers]

\* A store of a class without key-list and size subscribers: the fields
\* do not exist
NotKeyed ==
    /\ keysSubscribers = <<>>
    /\ sizeSubscribers = <<>>
    /\ cachedKeys = <<>>
    /\ countCalls = <<>>

\* A store of a class without a debug bridge: the fields do not exist
NoDevTools ==
    /\ devTools = Null
    /\ pauseDevTools = FALSE
    /\ sent = <<>>

\* The null reference: the address of no object
NoObject == 0

\* No useStore() call was made
NoScope == [in |-> 0, threw |-> FALSE, store |-> NoObject, before |-> <<>>]

\* A store made by createStateStore or createMapStore: no Provider, no
\* context
NotScoped ==
    /\ heap = <<>>
    /\ mounted = <<>>
    /\ scope = NoScope

\* The store is an instance of CreateStateStore
IsStateStore == instanceOf = "CreateStateStore"

\* A path subscription: callback cb for path
PathSubscription(path, cb) == [of |-> "path", path |-> path, cb |-> cb]

\* constructor({ initialData, fallbackData })
Init ==
    /\ instanceOf = "CreateStateStore"
    /\ NotKeyed
    /\ NoDevTools
    /\ NotScoped
    /\ \E cfg \in Configs :
        /\ config = cfg
        /\ data = deepClone(OrEmpty(cfg.initialData))
        /\ initialData = deepClone(OrEmpty(cfg.initialData))
        /\ fallbackData = deepClone(OrEmpty(cfg.fallbackData))
        /\ pathCache = <<>>
        /\ propertyCache = <<>>
        /\ dependencyCache = <<>>
        /\ subscribers = <<>>
        /\ calls = <<>>
        /\ fnArgs = <<>>
        /\ last = NoCall
        /\ prev = [data |-> data, pathCache |-> <<>>,
                   dependencyCache |-> <<>>, subscribers |-> <<>>]
        /\ resets = 0
        /\ released = {}
        /\ steps = 0

\* What every call does first: getCachedPath(path), and the bookkeeping
Resolve(path) ==
    /\ IsStateStore
    /\ steps < MaxSteps
    /\ steps' = steps + 1
    /\ prev' = Snapshot
    /\ pathCache' = pathCacheAfter(pathCache, path)
    /\ dependencyCache' = dependencyCacheAfter(dependencyCache, pathCache, path)
    /\ UNCHANGED <<initialData, fallbackData, propertyCache, config, resets,
                   released, instanceOf>>
    /\ UNCHANGED <<keyedVars, devToolsVars, scopedVars>>

\* get(path)
Get(path) ==
    /\ Resolve(path)
    /\ last' = [NoCall EXCEPT !.op = "get", !.path = path,
                  !.result = get(data, fallbackData, initialData, pathCache,
                                 propertyCache, path)]
    /\ calls' = <<>>
    /\ fnArgs' = <<>>
    /\ UNCHANGED <<data, subscribers>>

\* set(path, value, notify)
Set(path, value, notify) ==
    LET r == setData(data, fallbackData, initialData, pathCache,
                     propertyCache, path, value)
    IN /\ Resolve(path)
       /\ data' = r.node
       /\ calls' = IF notify /\ ~r.threw
                   THEN notifyMutation(subscribers, pathCache',
                                       dependencyCache', path)
                   ELSE <<>>
       /\ last' = [NoCall EXCEPT !.op = "set", !.path = path, !.value = value,
                     !.notify = notify, !.threw = r.threw]
       /\ fnArgs' = <<>>
       /\ UNCHANGED subscribers

\* update(path, valueOrFn, notify)
Update(path, updater, notify) ==
    LET r == updateData(data, fallbackData, initialData, pathCache,
                        propertyCache, path, updater.fn, updater.value)
    IN /\ Resolve(path)
       /\ \A i \in 1..Len(r.args) : updater.fn = "inc" => r.args[i].k # "obj"
       /\ data' = r.node
       /\ fnArgs' = r.args
       /\ calls' = IF notify /\ ~r.threw /\ ~r.returned
                   THEN notifyMutation(subscribers, pathCache',
                                       dependencyCache', path)
                   ELSE <<>>
       /\ last' = [NoCall EXCEPT !.op = "update", !.path = path,
                     !.value = updater.value, !.fn = updater.fn,
                     !.notify = notify, !.threw = r.threw,
                     !.returned = r.returned]
       /\ UNCHANGED subscribers

\* remove(path, notify)
Remove(path, notify) ==
    LET r == removeData(data, fallbackData, initialData, pathCache,
                        propertyCache, path)
    IN /\ Resolve(path)
       /\ data' = r.node
       /\ calls' = IF notify /\ ~r.returned
                   THEN notifyMutation(subscribers, pathCache',
                                       dependencyCache', path)
                   ELSE <<>>
       /\ last' = [NoCall EXCEPT !.op = "remove", !.path = path,
                     !.notify = notify, !.returned = r.returned]
       /\ fnArgs' = <<>>
       /\ UNCHANGED subscribers

\* reset(notify)
Reset(notify) ==
    /\ IsStateStore
    /\ steps < MaxSteps
    /\ steps' = steps + 1
    /\ prev' = Snapshot
    /\ resets' = resets + 1
    /\ data' = resetData(initialData)
    /\ calls' = IF notify THEN notifyAll(subscribers) ELSE <<>>
    /\ last' = [NoCall EXCEPT !.op = "reset", !.notify = notify]
    /\ fnArgs' = <<>>
    /\ UNCHANGED <<initialData, fallbackData, pathCache, propertyCache,
                   dependencyCache, subscribers, config, released,
                   instanceOf>>
    /\ UNCHANGED <<keyedVars, devToolsVars, scopedVars>>

\* The subscribe function use(path) hands to useSyncExternalStore
Subscribe(path, callback) ==
    /\ IsStateStore
    /\ steps < MaxSteps
    /\ released' = released \ {PathSubscription(path, callback)}
    /\ steps' = steps + 1
    /\ prev' = Snapshot
    /\ subscribers' = addSubscriber(subscribers, path, callback)
    /\ last' = [NoCall EXCEPT !.op = "subscribe", !.path = path]
    /\ calls' = <<>>
    /\ fnArgs' = <<>>
    /\ UNCHANGED <<data, initialData, fallbackData, pathCache, propertyCache,
                   dependencyCache, config, resets, instanceOf>>
    /\ UNCHANGED <<keyedVars, devToolsVars, scopedVars>>

\* The function subscribe returned for (path, callback)
Unsubscribe(path, callback) ==
    /\ IsStateStore
    /\ steps < MaxSteps
    /\ released' = released \cup {PathSubscription(path, callback)}
    /\ SeqHas(subscribersOf(subscribers, path), callback)
    /\ steps' = steps + 1
    /\ prev' = Snapshot
    /\ subscribers' = removeSubscriber(subscribers, path, callback)
    /\ last' = [NoCall EXCEPT !.op = "unsubscribe", !.path = path]
    /\ calls' = <<>>
    /\ fnArgs' = <<>>
    /\ UNCHANGED <<data, initialData, fallbackData, pathCache, propertyCache,
                   dependencyCache, config, resets, instanceOf>>
    /\ UNCHANGED <<keyedVars, devToolsVars, scopedVars>>

Next ==
    \/ \E path \in Paths : Get(path)
    \/ \E path \in Paths, value \in Values, notify \in BOOLEAN :
           Set(path, value, notify)
    \/ \E path \in Paths, updater \in Updaters, notify \in BOOLEAN :
           Update(path, updater, notify)
    \/ \E path \in Paths, notify \in BOOLEAN : Remove(path, notify)
    \/ \E notify \in BOOLEAN : Reset(notify)
    \/ \E path \in Paths, callback \in Callbacks : Subscribe(path, callback)
    \/ \E path \in Paths, callback \in Callbacks : Unsubscribe(path, callback)

Spec == Init /\ [][Next]_vars

-----------------------------------------------------------------------------
(* Keyed-collection store: class CreateMapStore of src/unnamed/part_001.   *)
(* A Map<string, T> is tagged "map" and holds the sequence e of its entries *)
(* in insertion order.                                                     *)

\* new Map(entries)
MapOf(entries) == [k |-> "map", e |-> entries]

\* Index of key's entry in the Map m, 0 if it has none
MapIndex(m, key) ==
    IF \E i \in 1..Len(m.e) : m.e[i].key = key
    THEN CHOOSE i \in 1..Len(m.e) : m.e[i].key = key
    ELSE 0

\* m.has(key)
MapHas(m, key) == MapIndex(m, key) # 0

\* m.get(key)
MapGet(m, key) == IF MapHas(m, key) THEN m.e[MapIndex(m, key)].value ELSE Undef

\* m.set(key, v): an existing key keeps its place, a new one goes last
MapSet(m, key, v) ==
    IF MapHas(m, key)
    THEN MapOf([m.e EXCEPT ![MapIndex(m, key)].value = v])
    ELSE MapOf(Append(m.e, [key |-> key, value |-> v]))

\* m.delete(key)
MapDelete(m, key) == MapOf(SelectSeq(m.e, LAMBDA x : x.key # key))

\* Array.from(m.keys())
MapKeys(m) == [i \in 1..Len(m.e) |-> m.e[i].key]

\* deepClone of a Map: new Map of the cloned entries; of undefined: undefined
deepCloneMap(m) ==
    IF m.k # "map"
    THEN m
    ELSE MapOf([i \in 1..Len(m.e) |->
                  [key |-> m.e[i].key, value |-> deepClone(m.e[i].value)]])

\* deepClone(initialData) || new Map()
OrNewMap(m) == IF m.k = "map" THEN m ELSE MapOf(<<>>)

\* getFullPath(key, path): an omitted path is ''
getFullPath(key, path) == IF path # <<>> THEN key \o <<Dot>> \o path ELSE key

\* The body of CreateMapStore.getCachedPath's miss branch
MapStore_parsePath(path) ==
    LET keys == split(path)
        allPaths == allPathsOf(keys, Len(keys))
    IN [mapKey |-> keys[1],
        parentKeys |-> SubSeq(keys, 2, Len(keys) - 1),
        parentPaths |-> IF Len(allPaths) > 1
                        THEN SubSeq(allPaths, 1, Len(allPaths) - 1)
                        ELSE <<>>,
        currentKey |-> IF Len(keys) = 1 THEN <<>> ELSE keys[Len(keys)]]

\* CreateMapStore.getCachedPath(path): the value it returns
MapStore_getCachedPath(pc, path) ==
    IF path \in DOMAIN pc THEN pc[path] ELSE MapStore_parsePath(path)

\* CreateMapStore.getCachedPath(path): this.pathCache after the call
MapStore_pathCacheAfter(pc, path) ==
    IF path \in DOMAIN pc
    THEN pc
    ELSE [q \in DOMAIN pc \cup {path} |->
            IF q = path THEN MapStore_parsePath(path) ELSE pc[q]]

\* CreateMapStore.getCachedProperty(path)
MapStore_getCachedProperty(d, fb, ini, pc, prc, path) ==
    IF path \in DOMAIN prc
    THEN prc[path]
    ELSE LET info == MapStore_getCachedPath(pc, path)
         IN walkParentKeys(MapGet(d, info.mapKey), fb,
                           MapGet(ini, info.mapKey), info.parentKeys)

\* CreateMapStore.get(mapKey, path): the value returned
MapStore_get(d, fb, ini, pc, prc, mapKey, path) ==
    LET fullPath == getFullPath(mapKey, path)
        currentKey == MapStore_getCachedPath(pc, fullPath).currentKey
        prop == MapStore_getCachedProperty(d, fb, ini, pc, prc, fullPath)
        originalValue == IF currentKey # <<>>
                         THEN AndProp(prop.parentProp, currentKey)
                         ELSE prop.parentProp
    IN IF originalValue # Undef
       THEN originalValue
       ELSE AndProp(prop.fallbackProp, currentKey)

\* getKeys()
getKeys(d) == MapKeys(d)

\* getSize()
getSize(d) == Len(d.e)

\* An update that creates the entry of an absent key
MapStore_updateData_CreatesEntry(d, fb, ini, pc, prc, mapKey, path, fn, value) ==
    LET fullPath == getFullPath(mapKey, path)
        info == MapStore_getCachedPath(pc, fullPath)
        parentProp ==
            MapStore_getCachedProperty(d, fb, ini, pc, prc, fullPath).parentProp
        current == Prop(parentProp, info.currentKey)
        next == IF fn # "none" THEN applyFn(fn, current) ELSE value
    IN IF ~MapHas(d, mapKey)
       THEN [node |-> MapSet(d, mapKey, Field(info.currentKey, next)),
             threw |-> FALSE, returned |-> FALSE,
             resolved |-> TRUE, args |-> <<>>]
       ELSE IF ~Truthy(parentProp)
       THEN [node |-> d, threw |-> FALSE, returned |-> TRUE,
             resolved |-> TRUE, args |-> <<>>]
       ELSE [node |-> IF parentProp.k = "obj"
                      THEN MapSet(d, info.mapKey,
                                  assignAt(MapGet(d, info.mapKey),
                                           info.parentKeys, info.currentKey,
                                           next))
                      ELSE d,
             threw |-> parentProp.k # "obj",
             returned |-> FALSE,
             resolved |-> TRUE,
             args |-> IF fn # "none" THEN <<current>> ELSE <<>>]

\* CreateMapStore.update(mapKey, path, valueOrFn): this.data afterwards,
\* whether the call returned early (and whether it did so before resolving
\* the path), the arguments its transformation received, whether it threw
MapStore_updateData(d, fb, ini, pc, prc, mapKey, path, fn, value) ==
    LET fullPath == getFullPath(mapKey, path)
        info == MapStore_getCachedPath(pc, fullPath)
        parentProp ==
            MapStore_getCachedProperty(d, fb, ini, pc, prc, fullPath).parentProp
        current == Prop(parentProp, info.currentKey)
        next == IF fn # "none" THEN applyFn(fn, current) ELSE value
    IN IF ~MapHas(d, mapKey)
       THEN [node |-> d, threw |-> FALSE, returned |-> TRUE,
             resolved |-> FALSE, args |-> <<>>]
       ELSE IF ~Truthy(parentProp)
       THEN [node |-> d, threw |-> FALSE, returned |-> TRUE,
             resolved |-> TRUE, args |-> <<>>]
       ELSE [node |-> IF parentProp.k = "obj"
                      THEN MapSet(d, info.mapKey,
                                  assignAt(MapGet(d, info.mapKey),
                                           info.parentKeys, info.currentKey,
                                           next))
                      ELSE d,
             threw |-> parentProp.k # "obj",
             returned |-> FALSE,
             resolved |-> TRUE,
             args |-> IF fn # "none" THEN <<current>> ELSE <<>>]

\* CreateMapStore.notifyNestedSubscribers(path): the callbacks it invokes
MapStore_notifyNestedSubscribers(subs, pc, path) ==
    LET info == MapStore_getCachedPath(pc, path)
    IN (IF info.mapKey = path
        THEN notifySubscribers(subs, info.mapKey)
        ELSE notifySubscribers(subs, path))
           \o notifyEach(subs, info.parentPaths)

\* The notify branch shared by the keyed set, update and remove
MapStore_notifyMutation(subs, pc, dc, path) ==
    MapStore_notifyNestedSubscribers(subs, pc, path)
        \o notifyDependencies(subs, dc, path)

\* A notifyCountSubscribers that forgets the size subscribers
notifyCountSubscribers_KeysOnly(keysSubs, sizeSubs) ==
    [i \in 1..Len(keysSubs) |-> [of |-> "keys", cb |-> keysSubs[i]]]

\* notifyCountSubscribers(): the callbacks it invokes, key-list ones first
notifyCountSubscribers(keysSubs, sizeSubs) ==
    [i \in 1..Len(keysSubs) |-> [of |-> "keys", cb |-> keysSubs[i]]]
        \o [i \in 1..Len(sizeSubs) |-> [of |-> "size", cb |-> sizeSubs[i]]]

-----------------------------------------------------------------------------
(* The keyed-collection store *)

\* Collection keys the callers use: 'u' and 'u.a'
Keys == {S1(u), S2(u, a)}

\* Paths into an entry that get and use are given: none, or 'a'
EntryPaths == {<<>>, S1(a)}

\* Paths into an entry that update is given: 'a'
UpdatePaths == {S1(a)}

\* Entry values the callers write: { a: 1 } and { a: { a: 5 } }
EntryValues == {Field(a, Num(1)), Field(a, Field(a, Num(5)))}

\* Constructor arguments of CreateMapStore
MapConfigs ==
    { \* new Map([['u', { a: 30 }]]) with fallback { a: 0 }
      [initialData |-> MapOf(<<[key |-> S1(u), value |-> Field(a, Num(30))]>>),
       fallbackData |-> Field(a, Num(0))],
      \* neither initial data nor fallback
      [initialData |-> Undef, fallbackData |-> Undef] }

\* The store is an instance of CreateMapStore
IsMapStore == instanceOf = "CreateMapStore"

\* A key-list ("keys") or size ("size") subscription of callback cb
CountSubscription(of, cb) == [of |-> of, path |-> <<>>, cb |-> cb]

NoKeyCall ==
    [op |-> "new", key |-> <<>>, path |-> <<>>, value |-> Undef,
     fn |-> "none", notify |-> FALSE, threw |-> FALSE, returned |-> FALSE,
     result |-> Undef]

\* CreateMapStore's constructor({ initialData, fallbackData })
MapStore_Init ==
    /\ instanceOf = "CreateMapStore"
    /\ NoDevTools
    /\ NotScoped
    /\ \E cfg \in MapConfigs :
        /\ config = cfg
        /\ data = OrNewMap(deepCloneMap(cfg.initialData))
        /\ initialData = OrNewMap(deepCloneMap(cfg.initialData))
        /\ fallbackData = deepClone(OrEmpty(cfg.fallbackData))
        /\ cachedKeys = MapKeys(OrNewMap(deepCloneMap(cfg.initialData)))
    /\ pathCache = <<>>
    /\ propertyCache = <<>>
    /\ dependencyCache = <<>>
    /\ subscribers = <<>>
    /\ keysSubscribers = <<>>
    /\ sizeSubscribers = <<>>
    /\ countCalls = <<>>
    /\ calls = <<>>
    /\ fnArgs = <<>>
    /\ last = NoKeyCall
    /\ prev = [data |-> data, pathCache |-> <<>>,
               dependencyCache |-> <<>>, subscribers |-> <<>>]
    /\ resets = 0
    /\ released = {}
    /\ steps = 0

\* The bookkeeping of every call on a CreateMapStore
MapStore_Begin ==
    /\ IsMapStore
    /\ steps < MaxSteps
    /\ steps' = steps + 1
    /\ prev' = Snapshot
    /\ UNCHANGED <<initialData, fallbackData, propertyCache, config,
                   instanceOf>>
    /\ UNCHANGED <<devToolsVars, scopedVars>>

\* getCachedPath(path) is called, or is not
MapStore_Resolve(called, path) ==
    /\ pathCache' = IF called
                    THEN MapStore_pathCacheAfter(pathCache, path)
                    ELSE pathCache
    /\ dependencyCache' = IF called
                          THEN dependencyCacheAfter(dependencyCache,
                                                    pathCache, path)
                          ELSE dependencyCache

\* notifyCountSubscribers() is called, or is not
MapStore_Count(called) ==
    /\ cachedKeys' = IF called THEN MapKeys(data') ELSE cachedKeys
    /\ countCalls' = IF called
                     THEN notifyCountSubscribers(keysSubscribers,
                                                 sizeSubscribers)
                     ELSE <<>>
    /\ UNCHANGED <<keysSubscribers, sizeSubscribers>>

\* key(mapKey).get(path)
KeyGet(mapKey, path) ==
    /\ MapStore_Begin
    /\ MapStore_Resolve(TRUE, getFullPath(mapKey, path))
    /\ MapStore_Count(FALSE)
    /\ last' = [NoKeyCall EXCEPT !.op = "get", !.key = mapKey, !.path = path,
                  !.result = MapStore_get(data, fallbackData, initialData,
                                          pathCache, propertyCache, mapKey,
                                          path)]
    /\ calls' = <<>>
    /\ fnArgs' = <<>>
    /\ UNCHANGED <<data, subscribers, resets, released>>

\* key(mapKey).set(value, notify)
KeySet(mapKey, value, notify) ==
    LET hasKey == MapHas(data, mapKey)
        fullPath == getFullPath(mapKey, <<>>)
    IN /\ MapStore_Begin
       /\ data' = MapSet(data, mapKey, value)
       /\ MapStore_Resolve(notify, fullPath)
       /\ calls' = IF notify
                   THEN MapStore_notifyMutation(subscribers, pathCache',
                                                dependencyCache', fullPath)
                   ELSE <<>>
       /\ MapStore_Count(~hasKey)
       /\ last' = [NoKeyCall EXCEPT !.op = "set", !.key = mapKey,
                     !.value = value, !.notify = notify]
       /\ fnArgs' = <<>>
       /\ UNCHANGED <<subscribers, resets, released>>

\* key(mapKey).update(path, valueOrFn, notify)
KeyUpdate(mapKey, path, updater, notify) ==
    LET fullPath == getFullPath(mapKey, path)
        r == MapStore_updateData(data, fallbackData, initialData, pathCache,
                                 propertyCache, mapKey, path, updater.fn,
                                 updater.value)
    IN /\ MapStore_Begin
       /\ \A i \in 1..Len(r.args) : updater.fn = "inc" => r.args[i].k # "obj"
       /\ data' = r.node
       /\ MapStore_Resolve(r.resolved, fullPath)
       /\ fnArgs' = r.args
       /\ calls' = IF notify /\ ~r.threw /\ ~r.returned
                   THEN MapStore_notifyMutation(subscribers, pathCache',
                                                dependencyCache', fullPath)
                   ELSE <<>>
       /\ MapStore_Count(FALSE)
       /\ last' = [NoKeyCall EXCEPT !.op = "update", !.key = mapKey,
                     !.path = path, !.value = updater.value,
                     !.fn = updater.fn, !.notify = notify,
                     !.threw = r.threw, !.returned = r.returned]
       /\ UNCHANGED <<subscribers, resets, released>>

\* key(mapKey).remove(notify)
KeyRemove(mapKey, notify) ==
    LET hasKey == MapHas(data, mapKey)
    IN /\ MapStore_Begin
       /\ data' = IF hasKey THEN MapDelete(data, mapKey) ELSE data
       /\ MapStore_Resolve(hasKey /\ notify, mapKey)
       /\ calls' = IF hasKey /\ notify
                   THEN MapStore_notifyMutation(subscribers, pathCache',
                                                dependencyCache', mapKey)
                   ELSE <<>>
       /\ MapStore_Count(hasKey /\ notify)
       /\ last' = [NoKeyCall EXCEPT !.op = "remove", !.key = mapKey,
                     !.notify = notify, !.returned = ~hasKey]
       /\ fnArgs' = <<>>
       /\ UNCHANGED <<subscribers, resets, released>>

\* CreateMapStore.reset(notify)
MapStore_Reset(notify) ==
    /\ MapStore_Begin
    /\ resets' = resets + 1
    /\ data' = deepCloneMap(initialData)
    /\ calls' = IF notify THEN notifyAll(subscribers) ELSE <<>>
    /\ MapStore_Count(notify)
    /\ last' = [NoKeyCall EXCEPT !.op = "reset", !.notify = notify]
    /\ fnArgs' = <<>>
    /\ UNCHANGED <<pathCache, dependencyCache, subscribers, released>>

\* clear(notify)
Clear(notify) ==
    /\ MapStore_Begin
    /\ data' = MapOf(<<>>)
    /\ calls' = IF notify THEN notifyAll(subscribers) ELSE <<>>
    /\ MapStore_Count(notify)
    /\ last' = [NoKeyCall EXCEPT !.op = "clear", !.notify = notify]
    /\ fnArgs' = <<>>
    /\ UNCHANGED <<pathCache, dependencyCache, subscribers, resets, released>>

\* A call that mutates nothing but a set of subscribers
MapStore_Registry ==
    /\ MapStore_Begin
    /\ calls' = <<>>
    /\ countCalls' = <<>>
    /\ fnArgs' = <<>>
    /\ UNCHANGED <<data, pathCache, dependencyCache, cachedKeys, resets>>

\* The subscribe function key(mapKey).use(path) hands to useSyncExternalStore
KeySubscribe(mapKey, path, callback) ==
    LET fullPath == getFullPath(mapKey, path)
    IN /\ MapStore_Registry
       /\ subscribers' = addSubscriber(subscribers, fullPath, callback)
       /\ released' = released \ {PathSubscription(fullPath, callback)}
       /\ last' = [NoKeyCall EXCEPT !.op = "subscribe", !.key = mapKey,
                     !.path = path]
       /\ UNCHANGED <<keysSubscribers, sizeSubscribers>>

\* The function that subscribe returned
KeyUnsubscribe(mapKey, path, callback) ==
    LET fullPath == getFullPath(mapKey, path)
    IN /\ MapStore_Registry
       /\ SeqHas(subscribersOf(subscribers, fullPath), callback)
       /\ subscribers' = removeSubscriber(subscribers, fullPath, callback)
       /\ released' = released \cup {PathSubscription(fullPath, callback)}
       /\ last' = [NoKeyCall EXCEPT !.op = "unsubscribe", !.key = mapKey,
                     !.path = path]
       /\ UNCHANGED <<keysSubscribers, sizeSubscribers>>

\* The subscribe function of useKeys()
KeysSubscribe(callback) ==
    /\ MapStore_Registry
    /\ keysSubscribers' = SetAdd(keysSubscribers, callback)
    /\ released' = released \ {CountSubscription("keys", callback)}
    /\ last' = [NoKeyCall EXCEPT !.op = "subscribeKeys"]
    /\ UNCHANGED <<subscribers, sizeSubscribers>>

\* The function that useKeys' subscribe returned
KeysUnsubscribe(callback) ==
    /\ MapStore_Registry
    /\ SeqHas(keysSubscribers, callback)
    /\ keysSubscribers' = SetDelete(keysSubscribers, callback)
    /\ released' = released \cup {CountSubscription("keys", callback)}
    /\ last' = [NoKeyCall EXCEPT !.op = "unsubscribeKeys"]
    /\ UNCHANGED <<subscribers, sizeSubscribers>>

\* The subscribe function of useSize()
SizeSubscribe(callback) ==
    /\ MapStore_Registry
    /\ sizeSubscribers' = SetAdd(sizeSubscribers, callback)
    /\ released' = released \ {CountSubscription("size", callback)}
    /\ last' = [NoKeyCall EXCEPT !.op = "subscribeSize"]
    /\ UNCHANGED <<subscribers, keysSubscribers>>

\* The function that useSize's subscribe returned
SizeUnsubscribe(callback) ==
    /\ MapStore_Registry
    /\ SeqHas(sizeSubscribers, callback)
    /\ sizeSubscribers' = SetDelete(sizeSubscribers, callback)
    /\ released' = released \cup {CountSubscription("size", callback)}
    /\ last' = [NoKeyCall EXCEPT !.op = "unsubscribeSize"]
    /\ UNCHANGED <<subscribers, keysSubscribers>>

MapStore_Next ==
    \/ \E mapKey \in Keys, path \in EntryPaths : KeyGet(mapKey, path)
    \/ \E mapKey \in Keys, value \in EntryValues, notify \in BOOLEAN :
           KeySet(mapKey, value, notify)
    \/ \E mapKey \in Keys, path \in UpdatePaths, updater \in Updaters,
          notify \in BOOLEAN :
           KeyUpdate(mapKey, path, updater, notify)
    \/ \E mapKey \in Keys, notify \in BOOLEAN : KeyRemove(mapKey, notify)
    \/ \E notify \in BOOLEAN : MapStore_Reset(notify)
    \/ \E notify \in BOOLEAN : Clear(notify)
    \/ \E mapKey \in Keys, path \in EntryPaths, callback \in Callbacks :
           KeySubscribe(mapKey, path, callback)
    \/ \E mapKey \in Keys, path \in EntryPaths, callback \in Callbacks :
           KeyUnsubscribe(mapKey, path, callback)
    \/ \E callback \in Callbacks : KeysSubscribe(callback)
    \/ \E callback \in Callbacks : KeysUnsubscribe(callback)
    \/ \E callback \in Callbacks : SizeSubscribe(callback)
    \/ \E callback \in Callbacks : SizeUnsubscribe(callback)

SpecMap == MapStore_Init /\ [][MapStore_Next]_vars

-----------------------------------------------------------------------------
(* A store of either class *)

SpecStores == (Init \/ MapStore_Init) /\ [][Next \/ MapStore_Next]_vars

-----------------------------------------------------------------------------
(* Context-scoped store: createScopedStore of src/src/index.tsx.           *)
(* Every mounted Provider constructs a CreateStateStore from the one props *)
(* object.  Objects have an identity here: heap[at] is the object at the   *)
(* address at, a store is the object holding the addresses of its fields,  *)
(* and a write through one address is seen through every copy of it.       *)

MaxScopes == 2

\* Where the props object keeps its two trees
props == [initialData |-> 1, fallbackData |-> 2]

\* new Map(), new Set(), {} or any other fresh object holding v
newCell(h, v) == [heap |-> Append(h, v), at |-> Len(h) + 1]

\* A deepClone that hands back the object it was given
deepCloneCell_Alias(h, at) == [heap |-> h, at |-> at]

\* deepClone(obj) of the object at an address: a new object, equal to it
deepCloneCell(h, at) == newCell(h, deepClone(h[at]))

\* deepClone(x || {})
cloneOrEmpty(h, at) ==
    IF Truthy(h[at])
    THEN deepCloneCell(h, at)
    ELSE deepCloneCell(newCell(h, EmptyObj).heap, newCell(h, EmptyObj).at)

\* new CreateStateStore(props): the field initializers, then the constructor
construct(h) ==
    LET pc == newCell(h, <<>>)
        prc == newCell(pc.heap, <<>>)
        dc == newCell(prc.heap, <<>>)
        subs == newCell(dc.heap, <<>>)
        d == cloneOrEmpty(subs.heap, props.initialData)
        ini == cloneOrEmpty(d.heap, props.initialData)
        fb == cloneOrEmpty(ini.heap, props.fallbackData)
    IN newCell(fb.heap,
               [data |-> d.at, initialData |-> ini.at,
                fallbackData |-> fb.at, pathCache |-> pc.at,
                propertyCache |-> prc.at, dependencyCache |-> dc.at,
                subscribers |-> subs.at])

\* useContext(StoreContext) in a component rendered inside the i-th mounted
\* Provider, or outside every Provider (i = 0): the default value is null
useContext(stores, i) == IF i = 0 THEN NoObject ELSE stores[i]

\* A useStore that hands back whatever the context holds
useStore_Tolerant(context) == [threw |-> FALSE, store |-> context]

\* useStore()
useStore(context) ==
    IF context = NoObject
    THEN [threw |-> TRUE, store |-> NoObject]
    ELSE [threw |-> FALSE, store |-> context]

\* The fields of the store at the address s, as they are in the heap h
View(h, s) ==
    [data |-> h[h[s].data], initialData |-> h[h[s].initialData],
     fallbackData |-> h[h[s].fallbackData], pathCache |-> h[h[s].pathCache],
     propertyCache |-> h[h[s].propertyCache],
     dependencyCache |-> h[h[s].dependencyCache],
     subscribers |-> h[h[s].subscribers]]

\* The fields of every mounted store
Views == [j \in 1..Len(mounted) |-> View(heap, mounted[j])]

\* Props of the scoped store: { u: { a: 30 } } with fallback { u: { a: 0 } },
\* or no initial data with fallback { u: { a: 0 } }
ScopedProps ==
    {[initialData |-> Field(u, Field(a, Num(30))),
      fallbackData |-> Field(u, Field(a, Num(0)))],
     [initialData |-> Undef, fallbackData |-> Field(u, Field(a, Num(0)))]}

ScopedPaths == {S1(u), S2(u, a)}

ScopedValues == {Num(31), Field(a, Num(5))}

\* The callback fn of a component rendered in the i-th scope
ScopedCallback(i, fn) == [by |-> i, fn |-> fn]

IsScopedStore == instanceOf = "createScopedStore"

\* createScopedStore(props): nothing is mounted yet
Scoped_Init ==
    /\ instanceOf = "createScopedStore"
    /\ NotKeyed
    /\ NoDevTools
    /\ \E cfg \in ScopedProps :
        /\ config = cfg
        /\ heap = <<cfg.initialData, cfg.fallbackData>>
    /\ mounted = <<>>
    /\ scope = NoScope
    /\ data = Undef
    /\ initialData = Undef
    /\ fallbackData = Undef
    /\ pathCache = <<>>
    /\ propertyCache = <<>>
    /\ dependencyCache = <<>>
    /\ subscribers = <<>>
    /\ calls = <<>>
    /\ fnArgs = <<>>
    /\ last = NoCall
    /\ prev = [data |-> Undef, pathCache |-> <<>>,
               dependencyCache |-> <<>>, subscribers |-> <<>>]
    /\ resets = 0
    /\ released = {}
    /\ steps = 0

\* What no step of a scoped store touches
Scoped_Frame ==
    /\ UNCHANGED <<data, initialData, fallbackData, pathCache, propertyCache,
                   dependencyCache, subscribers, prev, config, resets,
                   released, instanceOf>>
    /\ UNCHANGED <<keyedVars, devToolsVars>>

\* A Provider mounts: useMemo(() => new CreateStateStore(props), [])
Mount ==
    /\ IsScopedStore
    /\ Len(mounted) < MaxScopes
    /\ heap' = construct(heap).heap
    /\ mounted' = Append(mounted, construct(heap).at)
    /\ last' = [NoCall EXCEPT !.op = "mount"]
    /\ calls' = <<>>
    /\ fnArgs' = <<>>
    /\ UNCHANGED <<scope, steps>>
    /\ Scoped_Frame

\* A component rendered in scope i (0: outside every Provider) calls
\* useStore()
Scoped_Begin(i) ==
    /\ IsScopedStore
    /\ i \in 0..Len(mounted)
    /\ steps < MaxSteps
    /\ steps' = steps + 1
    /\ scope' = [in |-> i,
                 threw |-> useStore(useContext(mounted, i)).threw,
                 store |-> useStore(useContext(mounted, i)).store,
                 before |-> Views]
    /\ UNCHANGED mounted
    /\ Scoped_Frame

\* useStore() and nothing else
UseStore(i) ==
    /\ Scoped_Begin(i)
    /\ last' = [NoCall EXCEPT !.op = "useStore",
                  !.threw = useStore(useContext(mounted, i)).threw]
    /\ calls' = <<>>
    /\ fnArgs' = <<>>
    /\ UNCHANGED heap

\* The heap after a call on the store at s that resolved path (or did not)
\* and left node as the State Tree and subs as the registry
heapAfter(h, s, resolved, path, node, subs) ==
    LET h1 == IF resolved
              THEN [h EXCEPT
                      ![h[s].dependencyCache] =
                          dependencyCacheAfter(@, h[h[s].pathCache], path),
                      ![h[s].pathCache] = pathCacheAfter(@, path)]
              ELSE h
        h2 == [h1 EXCEPT ![h[s].data] = node]
    IN [h2 EXCEPT ![h[s].subscribers] = subs]

\* useStore().get(path) in scope i
Scoped_Get(i, path) ==
    LET s == useStore(useContext(mounted, i)).store
        v == View(heap, s)
    IN /\ Scoped_Begin(i)
       /\ i # 0
       /\ heap' = heapAfter(heap, s, TRUE, path, v.data, v.subscribers)
       /\ last' = [NoCall EXCEPT !.op = "get", !.path = path,
                     !.result = get(v.data, v.fallbackData, v.initialData,
                                    v.pathCache, v.propertyCache, path)]
       /\ calls' = <<>>
       /\ fnArgs' = <<>>

\* useStore().set(path, value, notify) in scope i
Scoped_Set(i, path, value, notify) ==
    LET s == useStore(useContext(mounted, i)).store
        v == View(heap, s)
        r == setData(v.data, v.fallbackData, v.initialData, v.pathCache,
                     v.propertyCache, path, value)
    IN /\ Scoped_Begin(i)
       /\ i # 0
       /\ heap' = heapAfter(heap, s, TRUE, path, r.node, v.subscribers)
       /\ calls' = IF notify /\ ~r.threw
                   THEN notifyMutation(View(heap', s).subscribers,
                                       View(heap', s).pathCache,
                                       View(heap', s).dependencyCache, path)
                   ELSE <<>>
       /\ last' = [NoCall EXCEPT !.op = "set", !.path = path, !.value = value,
                     !.notify = notify, !.threw = r.threw]
       /\ fnArgs' = <<>>

\* useStore().update(path, valueOrFn, notify) in scope i
Scoped_Update(i, path, updater, notify) ==
    LET s == useStore(useContext(mounted, i)).store
        v == View(heap, s)
        r == updateData(v.data, v.fallbackData, v.initialData, v.pathCache,
                        v.propertyCache, path, updater.fn, updater.value)
    IN /\ Scoped_Begin(i)
       /\ i # 0
       /\ \A k \in 1..Len(r.args) : updater.fn = "inc" => r.args[k].k # "obj"
       /\ heap' = heapAfter(heap, s, TRUE, path, r.node, v.subscribers)
       /\ fnArgs' = r.args
       /\ calls' = IF notify /\ ~r.threw /\ ~r.returned
                   THEN notifyMutation(View(heap', s).subscribers,
                                       View(heap', s).pathCache,
                                       View(heap', s).dependencyCache, path)
                   ELSE <<>>
       /\ last' = [NoCall EXCEPT !.op = "update", !.path = path,
                     !.value = updater.value, !.fn = updater.fn,
                     !.notify = notify, !.threw = r.threw,
                     !.returned = r.returned]

\* useStore().remove(path, notify) in scope i
Scoped_Remove(i, path, notify) ==
    LET s == useStore(useContext(mounted, i)).store
        v == View(heap, s)
        r == removeData(v.data, v.fallbackData, v.initialData, v.pathCache,
                        v.propertyCache, path)
    IN /\ Scoped_Begin(i)
       /\ i # 0
       /\ heap' = heapAfter(heap, s, TRUE, path, r.node, v.subscribers)
       /\ calls' = IF notify /\ ~r.returned
                   THEN notifyMutation(View(heap', s).subscribers,
                                       View(heap', s).pathCache,
                                       View(heap', s).dependencyCache, path)
                   ELSE <<>>
       /\ last' = [NoCall EXCEPT !.op = "remove", !.path = path,
                     !.notify = notify, !.returned = r.returned]
       /\ fnArgs' = <<>>

\* useStore().reset(notify) in scope i: this.data becomes a new object
Scoped_Reset(i, notify) ==
    LET s == useStore(useContext(mounted, i)).store
        cloned == deepCloneCell(heap, heap[s].initialData)
    IN /\ Scoped_Begin(i)
       /\ i # 0
       /\ heap' = [cloned.heap EXCEPT ![s].data = cloned.at]
       /\ calls' = IF notify
                   THEN notifyAll(View(heap, s).subscribers)
                   ELSE <<>>
       /\ last' = [NoCall EXCEPT !.op = "reset", !.notify = notify]
       /\ fnArgs' = <<>>

\* The subscribe function of useStore().use(path) in scope i
Scoped_Subscribe(i, path, fn) ==
    LET s == useStore(useContext(mounted, i)).store
        v == View(heap, s)
    IN /\ Scoped_Begin(i)
       /\ i # 0
       /\ heap' = heapAfter(heap, s, FALSE, path, v.data,
                            addSubscriber(v.subscribers, path,
                                          ScopedCallback(i, fn)))
       /\ last' = [NoCall EXCEPT !.op = "subscribe", !.path = path]
       /\ calls' = <<>>
       /\ fnArgs' = <<>>

\* The function that subscribe returned in scope i
Scoped_Unsubscribe(i, path, fn) ==
    LET s == useStore(useContext(mounted, i)).store
        v == View(heap, s)
    IN /\ Scoped_Begin(i)
       /\ i # 0
       /\ SeqHas(subscribersOf(v.subscribers, path), ScopedCallback(i, fn))
       /\ heap' = heapAfter(heap, s, FALSE, path, v.data,
                            removeSubscriber(v.subscribers, path,
                                             ScopedCallback(i, fn)))
       /\ last' = [NoCall EXCEPT !.op = "unsubscribe", !.path = path]
       /\ calls' = <<>>
       /\ fnArgs' = <<>>

Scopes == 0..MaxScopes

Scoped_Next ==
    \/ Mount
    \/ \E i \in Scopes : UseStore(i)
    \/ \E i \in Scopes, path \in ScopedPaths : Scoped_Get(i, path)
    \/ \E i \in Scopes, path \in ScopedPaths, value \in ScopedValues,
          notify \in BOOLEAN : Scoped_Set(i, path, value, notify)
    \/ \E i \in Scopes, path \in ScopedPaths, updater \in Updaters,
          notify \in BOOLEAN : Scoped_Update(i, path, updater, notify)
    \/ \E i \in Scopes, path \in ScopedPaths, notify \in BOOLEAN :
          Scoped_Remove(i, path, notify)
    \/ \E i \in Scopes, notify \in BOOLEAN : Scoped_Reset(i, notify)
    \/ \E i \in Scopes, path \in ScopedPaths, fn \in Callbacks :
          Scoped_Subscribe(i, path, fn)
    \/ \E i \in Scopes, path \in ScopedPaths, fn \in Callbacks :
          Scoped_Unsubscribe(i, path, fn)

SpecScoped == Scoped_Init /\ [][Scoped_Next]_vars

-----------------------------------------------------------------------------
(* Store with a debug bridge: class CreateStore of src/unnamed/part_000.   *)
(* Its get, set, update, remove, reset and use are those of                *)
(* CreateStateStore, with a sendToDevTools call after each write.          *)

\* The connection that devToolsExtension.connect() returns
Connection == [k |-> "connection"]

\* JSON.stringify's image of a value: NaN becomes null, and a key whose value
\* is undefined is left out
RECURSIVE toJSON(_)
toJSON(v) ==
    IF v = NaN THEN Null
    ELSE IF v.k # "obj" THEN v
    ELSE Obj([key \in {x \in DOMAIN v.f : v.f[x] # Undef} |->
                toJSON(v.f[key])])

\* JSON.stringify(v): the text of a JSON document
JSONstringify(v) == [valid |-> TRUE, doc |-> toJSON(v)]

\* A text that is no JSON document, as undefined or '' are
NotJSON == [valid |-> FALSE, doc |-> Null]

\* A JSON.parse that makes a value of any text
JSONparse_Lenient(text) == [threw |-> FALSE, value |-> text.doc]

\* JSON.parse(text): the value, or a SyntaxError
JSONparse(text) ==
    IF text.valid
    THEN [threw |-> FALSE, value |-> text.doc]
    ELSE [threw |-> TRUE, value |-> Undef]

\* The action names, as strings
SET == <<"S", "E", "T">>
UPDATE == <<"U", "P", "D", "A", "T", "E">>
REMOVE == <<"R", "E", "M", "O", "V", "E">>
RESET == <<"R", "E", "S", "E", "T">>

\* sendToDevTools(action, path, value): the devTools.send calls it makes,
\* this.data being d
sendToDevTools(dt, paused, action, path, value, d) ==
    IF dt = Null \/ paused
    THEN <<>>
    ELSE <<[action |-> [type |-> action \o <<" ">> \o path, path |-> path,
                        value |-> value],
            state |-> d]>>

\* notifyAllSubscribers(): the callbacks it invokes
notifyAllSubscribers(subs) ==
    notifyEach(subs, [i \in 1..Len(subs) |-> subs[i].path])

\* What a message pushed by the bridge does: this.data afterwards, the
\* callbacks invoked, the devTools.send calls made, pauseDevTools afterwards,
\* whether the instruction was applied, whether a parse failure was caught
\* and logged.  A payload is { type } in a DISPATCH message and a JSON text
\* in an ACTION message.
handleDevToolsMessage(message, d, ini, subs, dt, paused) ==
    LET nothing == [data |-> d, calls |-> <<>>, sent |-> <<>>,
                    pauseDevTools |-> paused, applied |-> FALSE,
                    logged |-> FALSE]
        parsed == JSONparse(message.state)
    IN IF message.type = "DISPATCH"
       THEN IF message.payload.type \in {"JUMP_TO_ACTION", "JUMP_TO_STATE"}
            THEN IF parsed.threw
                 THEN [nothing EXCEPT !.logged = TRUE]
                 ELSE \* applyDevToolsState(state)
                      [data |-> deepClone(parsed.value),
                       calls |-> notifyAllSubscribers(subs),
                       sent |-> <<>>,
                       pauseDevTools |-> FALSE,
                       applied |-> TRUE,
                       logged |-> FALSE]
            ELSE IF message.payload.type = "RESET"
            THEN \* this.reset(true)
                 [data |-> resetData(ini),
                  calls |-> notifyAll(subs),
                  sent |-> sendToDevTools(dt, paused, RESET, <<>>, Undef,
                                          resetData(ini)),
                  pauseDevTools |-> paused,
                  applied |-> TRUE,
                  logged |-> FALSE]
            ELSE nothing
       ELSE IF message.type = "ACTION"
       THEN [nothing EXCEPT !.logged = JSONparse(message.payload.text).threw]
       ELSE nothing

DevPaths == {S1(u), S2(u, a)}

DevValues == {Num(31), Field(a, Num(5))}

\* States the bridge holds and can jump to: { u: { a: 7 } }, { u: undefined }
DevStates == {Field(u, Field(a, Num(7))), Field(u, Undef)}

\* Messages the bridge pushes to its listener
DevMessages ==
    {[type |-> "DISPATCH", payload |-> [type |-> t, text |-> NotJSON],
      state |-> JSONstringify(s)] :
        t \in {"JUMP_TO_ACTION", "JUMP_TO_STATE"}, s \in DevStates}
    \cup {[type |-> "DISPATCH", payload |-> [type |-> t, text |-> NotJSON],
           state |-> NotJSON] :
              t \in {"JUMP_TO_ACTION", "JUMP_TO_STATE", "RESET", "COMMIT"}}
    \cup {[type |-> "ACTION", payload |-> [type |-> "", text |-> t],
           state |-> NotJSON] :
              t \in {JSONstringify(Field(a, Num(1))), NotJSON}}

\* Constructor arguments ({ initialData, fallbackData, devTools })
DevConfigs ==
    {[initialData |-> Field(u, Field(a, Num(30))),
      fallbackData |-> Field(u, Field(a, Num(0))),
      devTools |-> "store"],
     [initialData |-> Undef,
      fallbackData |-> Field(u, Field(a, Num(0))),
      devTools |-> ""]}

IsDevStore == instanceOf = "CreateStore"

NoDevCall ==
    [op |-> "new", path |-> <<>>, value |-> Undef, fn |-> "none",
     notify |-> FALSE, threw |-> FALSE, returned |-> FALSE, result |-> Undef,
     message |-> [type |-> "", payload |-> [type |-> "", text |-> NotJSON],
                  state |-> NotJSON],
     applied |-> FALSE, logged |-> FALSE]

\* setupDevTools(name): the connection, if the page has the extension
setupDevTools(name, extension) ==
    IF name # "" /\ extension THEN Connection ELSE Null

\* CreateStore's constructor({ initialData, fallbackData, devTools })
Dev_Init ==
    /\ instanceOf = "CreateStore"
    /\ NotKeyed
    /\ NotScoped
    /\ \E cfg \in DevConfigs, extension \in BOOLEAN :
        /\ config = cfg
        /\ data = deepClone(OrEmpty(cfg.initialData))
        /\ initialData = deepClone(OrEmpty(cfg.initialData))
        /\ fallbackData = deepClone(OrEmpty(cfg.fallbackData))
        /\ devTools = setupDevTools(cfg.devTools, extension)
    /\ pauseDevTools = FALSE
    /\ sent = <<>>
    /\ pathCache = <<>>
    /\ propertyCache = <<>>
    /\ dependencyCache = <<>>
    /\ subscribers = <<>>
    /\ calls = <<>>
    /\ fnArgs = <<>>
    /\ last = NoDevCall
    /\ prev = [data |-> data, pathCache |-> <<>>,
               dependencyCache |-> <<>>, subscribers |-> <<>>]
    /\ resets = 0
    /\ released = {}
    /\ steps = 0

\* The bookkeeping of every call on a CreateStore
Dev_Begin ==
    /\ IsDevStore
    /\ steps < MaxSteps
    /\ steps' = steps + 1
    /\ prev' = Snapshot
    /\ UNCHANGED <<initialData, fallbackData, propertyCache, config, resets,
                   released, instanceOf, devTools>>
    /\ UNCHANGED <<keyedVars, scopedVars>>

\* getCachedPath(path) is called, or is not
Dev_Resolve(called, path) ==
    /\ pathCache' = IF called THEN pathCacheAfter(pathCache, path)
                    ELSE pathCache
    /\ dependencyCache' = IF called
                          THEN dependencyCacheAfter(dependencyCache,
                                                    pathCache, path)
                          ELSE dependencyCache

\* get(path)
Dev_Get(path) ==
    /\ Dev_Begin
    /\ Dev_Resolve(TRUE, path)
    /\ last' = [NoDevCall EXCEPT !.op = "get", !.path = path,
                  !.result = get(data, fallbackData, initialData, pathCache,
                                 propertyCache, path)]
    /\ calls' = <<>>
    /\ fnArgs' = <<>>
    /\ sent' = <<>>
    /\ UNCHANGED <<data, subscribers, pauseDevTools>>

\* set(path, value, notify)
Dev_Set(path, value, notify) ==
    LET r == setData(data, fallbackData, initialData, pathCache,
                     propertyCache, path, value)
    IN /\ Dev_Begin
       /\ Dev_Resolve(TRUE, path)
       /\ data' = r.node
       /\ sent' = IF r.threw
                  THEN <<>>
                  ELSE sendToDevTools(devTools, pauseDevTools, SET, path,
                                      value, r.node)
       /\ calls' = IF notify /\ ~r.threw
                   THEN notifyMutation(subscribers, pathCache',
                                       dependencyCache', path)
                   ELSE <<>>
       /\ last' = [NoDevCall EXCEPT !.op = "set", !.path = path,
                     !.value = value, !.notify = notify, !.threw = r.threw]
       /\ fnArgs' = <<>>
       /\ UNCHANGED <<subscribers, pauseDevTools>>

\* update(path, valueOrFn, notify)
Dev_Update(path, updater, notify) ==
    LET r == updateData(data, fallbackData, initialData, pathCache,
                        propertyCache, path, updater.fn, updater.value)
    IN /\ Dev_Begin
       /\ Dev_Resolve(TRUE, path)
       /\ \A i \in 1..Len(r.args) : updater.fn = "inc" => r.args[i].k # "obj"
       /\ data' = r.node
       /\ fnArgs' = r.args
       /\ sent' = IF r.threw \/ r.returned
                  THEN <<>>
                  ELSE sendToDevTools(devTools, pauseDevTools, UPDATE, path,
                                      updater, r.node)
       /\ calls' = IF notify /\ ~r.threw /\ ~r.returned
                   THEN notifyMutation(subscribers, pathCache',
                                       dependencyCache', path)
                   ELSE <<>>
       /\ last' = [NoDevCall EXCEPT !.op = "update", !.path = path,
                     !.value = updater.value, !.fn = updater.fn,
                     !.notify = notify, !.threw = r.threw,
                     !.returned = r.returned]
       /\ UNCHANGED <<subscribers, pauseDevTools>>

\* remove(path, notify)
Dev_Remove(path, notify) ==
    LET r == removeData(data, fallbackData, initialData, pathCache,
                        propertyCache, path)
    IN /\ Dev_Begin
       /\ Dev_Resolve(TRUE, path)
       /\ data' = r.node
       /\ sent' = IF r.returned
                  THEN <<>>
                  ELSE sendToDevTools(devTools, pauseDevTools, REMOVE, path,
                                      Undef, r.node)
       /\ calls' = IF notify /\ ~r.returned
                   THEN notifyMutation(subscribers, pathCache',
                                       dependencyCache', path)
                   ELSE <<>>
       /\ last' = [NoDevCall EXCEPT !.op = "remove", !.path = path,
                     !.notify = notify, !.returned = r.returned]
       /\ fnArgs' = <<>>
       /\ UNCHANGED <<subscribers, pauseDevTools>>

\* reset(notify), called by the program
Dev_Reset(notify) ==
    /\ Dev_Begin
    /\ Dev_Resolve(FALSE, <<>>)
    /\ data' = resetData(initialData)
    /\ sent' = sendToDevTools(devTools, pauseDevTools, RESET, <<>>, Undef,
                              resetData(initialData))
    /\ calls' = IF notify THEN notifyAll(subscribers) ELSE <<>>
    /\ last' = [NoDevCall EXCEPT !.op = "reset", !.notify = notify]
    /\ fnArgs' = <<>>
    /\ UNCHANGED <<subscribers, pauseDevTools>>

\* The subscribe function use(path) hands to useSyncExternalStore
Dev_Subscribe(path, callback) ==
    /\ Dev_Begin
    /\ Dev_Resolve(FALSE, path)
    /\ subscribers' = addSubscriber(subscribers, path, callback)
    /\ last' = [NoDevCall EXCEPT !.op = "subscribe", !.path = path]
    /\ calls' = <<>>
    /\ fnArgs' = <<>>
    /\ sent' = <<>>
    /\ UNCHANGED <<data, pauseDevTools>>

\* The function subscribe returned for (path, callback)
Dev_Unsubscribe(path, callback) ==
    /\ Dev_Begin
    /\ Dev_Resolve(FALSE, path)
    /\ SeqHas(subscribersOf(subscribers, path), callback)
    /\ subscribers' = removeSubscriber(subscribers, path, callback)
    /\ last' = [NoDevCall EXCEPT !.op = "unsubscribe", !.path = path]
    /\ calls' = <<>>
    /\ fnArgs' = <<>>
    /\ sent' = <<>>
    /\ UNCHANGED <<data, pauseDevTools>>

\* The listener given to devTools.subscribe receives a message
HandleDevToolsMessage(message) ==
    LET r == handleDevToolsMessage(message, data, initialData, subscribers,
                                   devTools, pauseDevTools)
    IN /\ Dev_Begin
       /\ devTools # Null
       /\ Dev_Resolve(FALSE, <<>>)
       /\ data' = r.data
       /\ calls' = r.calls
       /\ sent' = r.sent
       /\ pauseDevTools' = r.pauseDevTools
       /\ last' = [NoDevCall EXCEPT !.op = "message", !.message = message,
                     !.notify = TRUE, !.applied = r.applied,
                     !.logged = r.logged]
       /\ fnArgs' = <<>>
       /\ UNCHANGED subscribers

Dev_Next ==
    \/ \E path \in DevPaths : Dev_Get(path)
    \/ \E path \in DevPaths, value \in DevValues, notify \in BOOLEAN :
           Dev_Set(path, value, notify)
    \/ \E path \in DevPaths, updater \in Updaters, notify \in BOOLEAN :
           Dev_Update(path, updater, notify)
    \/ \E path \in DevPaths, notify \in BOOLEAN : Dev_Remove(path, notify)
    \/ \E notify \in BOOLEAN : Dev_Reset(notify)
    \/ \E path \in DevPaths, callback \in Callbacks :
           Dev_Subscribe(path, callback)
    \/ \E path \in DevPaths, callback \in Callbacks :
           Dev_Unsubscribe(path, callback)
    \/ \E message \in DevMessages : HandleDevToolsMessage(message)

SpecDev == Dev_Init /\ [][Dev_Next]_vars

-----------------------------------------------------------------------------
(* The store over an object graph (CreateStateStore, objects by identity) *)

\* The trees of a store are objects of the heap: heap[n] is the object at
\* address n, a function from its own keys to their slots; a slot holds a
\* primitive or the reference of an object.  The caller may hand set and
\* update a value an earlier get returned, which is a reference into the
\* heap, not a fresh literal.

\* Longest chain of objects followed when a tree is read off the heap
MaxDepth == 4

Ref(n) == [k |-> "ref", at |-> n]

\* ToBoolean(v) for a slot
RefTruthy(v) == v.k = "ref" \/ (v.k = "num" /\ v.n # 0)

\* v[key] for a v that is neither undefined nor null
RefProp(h, v, key) ==
    IF v.k = "ref" /\ key \in DOMAIN h[v.at] THEN h[v.at][key] ELSE Undef

\* a && a[key]
RefAndProp(h, v, key) == IF RefTruthy(v) THEN RefProp(h, v, key) ELSE v

\* o[key] = v on the object o refers to
RefPut(h, o, key, v) ==
    [h EXCEPT ![o.at] = [x \in DOMAIN @ \cup {key} |->
                            IF x = key THEN v ELSE @[x]]]

\* delete o[key] on the object o refers to
RefDel(h, o, key) ==
    [h EXCEPT ![o.at] = [x \in DOMAIN @ \ {key} |-> @[x]]]

\* The tree a slot denotes, objects followed to the depth given
RECURSIVE TreeOf(_, _, _)
TreeOf(h, v, depth) ==
    IF v.k # "ref"
    THEN v
    ELSE IF depth = 0
    THEN EmptyObj
    ELSE Obj([key \in DOMAIN h[v.at] |-> TreeOf(h, h[v.at][key], depth - 1)])

\* A tree built of new objects: the heap afterwards and the slot of the root
RECURSIVE newTree(_, _)
RECURSIVE newFields(_, _, _, _)
newTree(h, v) ==
    IF v.k # "obj"
    THEN [heap |-> h, value |-> v]
    ELSE LET r == newFields(h, v.f, DOMAIN v.f, <<>>)
         IN [heap |-> Append(r.heap, r.object),
             value |-> Ref(Len(r.heap) + 1)]

newFields(h, f, keys, object) ==
    IF keys = {}
    THEN [heap |-> h, object |-> object]
    ELSE LET key == CHOOSE x \in keys : TRUE
             c == newTree(h, f[key])
         IN newFields(c.heap, f, keys \ {key},
                      [x \in DOMAIN object \cup {key} |->
                          IF x = key THEN c.value ELSE object[x]])

\* deepClone(obj) of an object of the heap: Object.fromEntries over the
\* entries, each value cloned
Graph_deepClone(h, obj) == newTree(h, TreeOf(h, obj, MaxDepth))

\* The loop of getCachedProperty over parentKeys
RECURSIVE Graph_walkParentKeys(_, _, _, _, _)
Graph_walkParentKeys(h, pp, fp, ip, parentKeys) ==
    IF parentKeys = <<>>
    THEN [parentProp |-> pp, fallbackProp |-> fp, initialProp |-> ip]
    ELSE IF IsNullish(pp)
    THEN [parentProp |-> Undef, fallbackProp |-> fp, initialProp |-> ip]
    ELSE LET parentKey == Head(parentKeys)
         IN Graph_walkParentKeys(
                h,
                RefProp(h, pp, parentKey),
                IF ~IsNullish(fp) THEN RefProp(h, fp, parentKey) ELSE fp,
                IF ~IsNullish(ip) THEN RefProp(h, ip, parentKey) ELSE ip,
                Tail(parentKeys))

\* getCachedProperty(path) as it would be if it stored what it located:
\* the propertyCache afterwards
Graph_propertyCacheAfter_Stores(h, d, fb, ini, pc, prc, path) ==
    IF path \in DOMAIN prc
    THEN prc
    ELSE [q \in DOMAIN prc \cup {path} |->
            IF q = path
            THEN Graph_walkParentKeys(h, d, fb, ini,
                                      getCachedPath(pc, path).parentKeys)
            ELSE prc[q]]

\* getCachedProperty(path): the propertyCache afterwards.  propInfo is
\* built and returned; no statement stores it.
Graph_propertyCacheAfter(h, d, fb, ini, pc, prc, path) == prc

\* getCachedProperty(path): the value it returns
Graph_getCachedProperty(h, d, fb, ini, pc, prc, path) ==
    IF path \in DOMAIN prc
    THEN prc[path]
    ELSE Graph_walkParentKeys(h, d, fb, ini,
                              getCachedPath(pc, path).parentKeys)

\* get(path): the slot returned
Graph_get(h, d, fb, ini, pc, prc, path) ==
    LET currentKey == getCachedPath(pc, path).currentKey
        prop == Graph_getCachedProperty(h, d, fb, ini, pc, prc, path)
        originalValue == RefAndProp(h, prop.parentProp, currentKey)
    IN IF originalValue # Undef
       THEN originalValue
       ELSE RefAndProp(h, prop.fallbackProp, currentKey)

\* The materializing branch of set: the loop over parentPaths starting at
\* parent, then parent[currentKey] = value
RECURSIVE Graph_materialize(_, _, _, _, _)
Graph_materialize(h, parent, parentPaths, currentKey, value) ==
    IF parent.k # "ref"
    THEN [heap |-> h, threw |-> TRUE]
    ELSE IF parentPaths = <<>>
    THEN [heap |-> RefPut(h, parent, currentKey, value), threw |-> FALSE]
    ELSE LET parentKey == Head(parentPaths)
             h1 == IF RefProp(h, parent, parentKey) = Undef
                   THEN RefPut(Append(h, <<>>), parent, parentKey,
                               Ref(Len(h) + 1))
                   ELSE h
         IN Graph_materialize(h1, RefProp(h1, parent, parentKey),
                              Tail(parentPaths), currentKey, value)

\* set(path, value): the heap after the assignment, and whether it threw
Graph_set(h, d, fb, ini, pc, prc, path, value) ==
    LET info == getCachedPath(pc, path)
        parentProp ==
            Graph_getCachedProperty(h, d, fb, ini, pc, prc, path).parentProp
    IN IF ~RefTruthy(parentProp)
       THEN Graph_materialize(h, d, info.parentPaths, info.currentKey, value)
       ELSE IF parentProp.k = "ref"
       THEN [heap |-> RefPut(h, parentProp, info.currentKey, value),
             threw |-> FALSE]
       ELSE [heap |-> h, threw |-> TRUE]

\* update(path, valueOrFn): whether the call returns early, the arguments
\* its transformation received, the heap afterwards, whether it threw
Graph_update(h, d, fb, ini, pc, prc, path, fn, value) ==
    LET info == getCachedPath(pc, path)
        parentProp ==
            Graph_getCachedProperty(h, d, fb, ini, pc, prc, path).parentProp
        current == RefProp(h, parentProp, info.currentKey)
        next == IF fn # "none" THEN applyFn(fn, current) ELSE value
    IN IF ~RefTruthy(parentProp)
       THEN [heap |-> h, threw |-> FALSE, returned |-> TRUE, args |-> <<>>]
       ELSE [heap |-> IF parentProp.k = "ref"
                      THEN RefPut(h, parentProp, info.currentKey, next)
                      ELSE h,
             threw |-> parentProp.k # "ref",
             returned |-> FALSE,
             args |-> IF fn # "none" THEN <<current>> ELSE <<>>]

\* remove(path): whether the call returns early, and the heap afterwards
Graph_remove(h, d, fb, ini, pc, prc, path) ==
    LET info == getCachedPath(pc, path)
        parentProp ==
            Graph_getCachedProperty(h, d, fb, ini, pc, prc, path).parentProp
    IN IF ~RefTruthy(parentProp)
       THEN [heap |-> h, returned |-> TRUE]
       ELSE [heap |-> IF parentProp.k = "ref"
                      THEN RefDel(h, parentProp, info.currentKey)
                      ELSE h,
             returned |-> FALSE]

\* Constructor arguments
GraphConfigs ==
    { \* { u: { a: 30 } } with fallback { u: { a: 0, p: { a: 7 } } }
      [initialData |-> Field(u, Field(a, Num(30))),
       fallbackData |-> Field(u, Put(Field(a, Num(0)), S1(p), Field(a, Num(7))))],
      \* no initial data, with fallback { u: { a: 0 } }
      [initialData |-> Undef, fallbackData |-> Field(u, Field(a, Num(0)))] }

\* Paths the callers use: 'u', 'u.a', 'u.p.a'
GraphPaths == {S1(u), S2(u, a), S3(u, p, a)}

\* Literals the callers write: 31, { a: 5 }
GraphValues == {Num(31), Field(a, Num(5))}

\* Second argument of update: the value 31, or prev => prev
GraphUpdaters ==
    {[fn |-> "none", value |-> Num(31)], [fn |-> "id", value |-> Undef]}

\* What the caller can pass as a value: a literal, or the value the get
\* call just before returned
Held == IF last.op = "get" THEN {last.result} ELSE {}

GraphSnapshot ==
    [data |-> data, heap |-> heap, pathCache |-> pathCache,
     dependencyCache |-> dependencyCache, subscribers |-> subscribers]

\* constructor({ initialData, fallbackData }): three deepClone calls
Graph_Init ==
    /\ instanceOf = "CreateStateStore"
    /\ NotKeyed
    /\ NoDevTools
    /\ mounted = <<>>
    /\ scope = NoScope
    /\ \E cfg \in GraphConfigs :
        LET d == newTree(<<>>, OrEmpty(cfg.initialData))
            ini == newTree(d.heap, OrEmpty(cfg.initialData))
            fb == newTree(ini.heap, OrEmpty(cfg.fallbackData))
        IN /\ config = cfg
           /\ heap = fb.heap
           /\ data = d.value
           /\ initialData = ini.value
           /\ fallbackData = fb.value
           /\ prev = [data |-> d.value, heap |-> fb.heap, pathCache |-> <<>>,
                      dependencyCache |-> <<>>, subscribers |-> <<>>]
    /\ pathCache = <<>>
    /\ propertyCache = <<>>
    /\ dependencyCache = <<>>
    /\ subscribers = <<>>
    /\ calls = <<>>
    /\ fnArgs = <<>>
    /\ last = NoCall
    /\ resets = 0
    /\ released = {}
    /\ steps = 0

\* What every call does
Graph_Begin ==
    /\ steps < MaxSteps
    /\ steps' = steps + 1
    /\ prev' = GraphSnapshot
    /\ UNCHANGED <<initialData, fallbackData, config, released, instanceOf,
                   mounted, scope>>
    /\ UNCHANGED <<keyedVars, devToolsVars>>

\* What get, set, update and remove do first: getCachedPath(path) and
\* getCachedProperty(path)
Graph_Resolve(path) ==
    /\ Graph_Begin
    /\ pathCache' = pathCacheAfter(pathCache, path)
    /\ dependencyCache' = dependencyCacheAfter(dependencyCache, pathCache, path)
    /\ propertyCache' = Graph_propertyCacheAfter(heap, data, fallbackData,
                            initialData, pathCache, propertyCache, path)
    /\ UNCHANGED <<data, resets>>

\* get(path)
Graph_Get(path) ==
    /\ Graph_Resolve(path)
    /\ last' = [NoCall EXCEPT !.op = "get", !.path = path,
                  !.result = Graph_get(heap, data, fallbackData, initialData,
                                       pathCache, propertyCache, path)]
    /\ calls' = <<>>
    /\ fnArgs' = <<>>
    /\ UNCHANGED <<heap, subscribers>>

\* set(path, value, notify); an object literal is a new object
Graph_Set(path, value, notify) ==
    LET arg == newTree(heap, value)
        r == Graph_set(arg.heap, data, fallbackData, initialData, pathCache,
                       propertyCache, path, arg.value)
    IN /\ Graph_Resolve(path)
       /\ heap' = r.heap
       /\ calls' = IF notify /\ ~r.threw
                   THEN notifyMutation(subscribers, pathCache',
                                       dependencyCache', path)
                   ELSE <<>>
       /\ last' = [NoCall EXCEPT !.op = "set", !.path = path,
                     !.value = arg.value, !.notify = notify,
                     !.threw = r.threw]
       /\ fnArgs' = <<>>
       /\ UNCHANGED subscribers

\* update(path, valueOrFn, notify)
Graph_Update(path, updater, notify) ==
    LET r == Graph_update(heap, data, fallbackData, initialData, pathCache,
                          propertyCache, path, updater.fn, updater.value)
    IN /\ Graph_Resolve(path)
       /\ heap' = r.heap
       /\ fnArgs' = r.args
       /\ calls' = IF notify /\ ~r.threw /\ ~r.returned
                   THEN notifyMutation(subscribers, pathCache',
                                       dependencyCache', path)
                   ELSE <<>>
       /\ last' = [NoCall EXCEPT !.op = "update", !.path = path,
                     !.value = updater.value, !.fn = updater.fn,
                     !.notify = notify, !.threw = r.threw,
                     !.returned = r.returned]
       /\ UNCHANGED subscribers

\* remove(path, notify)
Graph_Remove(path, notify) ==
    LET r == Graph_remove(heap, data, fallbackData, initialData, pathCache,
                          propertyCache, path)
    IN /\ Graph_Resolve(path)
       /\ heap' = r.heap
       /\ calls' = IF notify /\ ~r.returned
                   THEN notifyMutation(subscribers, pathCache',
                                       dependencyCache', path)
                   ELSE <<>>
       /\ last' = [NoCall EXCEPT !.op = "remove", !.path = path,
                     !.notify = notify, !.returned = r.returned]
       /\ fnArgs' = <<>>
       /\ UNCHANGED subscribers

\* reset(notify): this.data = deepClone(this.initialData)
Graph_Reset(notify) ==
    LET cloned == Graph_deepClone(heap, initialData)
    IN /\ Graph_Begin
       /\ resets' = resets + 1
       /\ heap' = cloned.heap
       /\ data' = cloned.value
       /\ calls' = IF notify THEN notifyAll(subscribers) ELSE <<>>
       /\ last' = [NoCall EXCEPT !.op = "reset", !.notify = notify]
       /\ fnArgs' = <<>>
       /\ UNCHANGED <<pathCache, propertyCache, dependencyCache, subscribers>>

\* The subscribe function use(path) hands to useSyncExternalStore
Graph_Subscribe(path, callback) ==
    /\ Graph_Begin
    /\ subscribers' = addSubscriber(subscribers, path, callback)
    /\ last' = [NoCall EXCEPT !.op = "subscribe", !.path = path]
    /\ calls' = <<>>
    /\ fnArgs' = <<>>
    /\ UNCHANGED <<data, heap, pathCache, propertyCache, dependencyCache,
                   resets>>

Graph_Next ==
    \/ \E path \in GraphPaths : Graph_Get(path)
    \/ \E path \in GraphPaths, value \in GraphValues \cup Held,
          notify \in BOOLEAN : Graph_Set(path, value, notify)
    \/ \E path \in GraphPaths, updater \in GraphUpdaters, notify \in BOOLEAN :
           Graph_Update(path, updater, notify)
    \/ \E path \in GraphPaths, notify \in BOOLEAN : Graph_Remove(path, notify)
    \/ \E notify \in BOOLEAN : Graph_Reset(notify)
    \/ \E path \in GraphPaths : Graph_Subscribe(path, "c1")

SpecGraph == Graph_Init /\ [][Graph_Next]_vars

-----------------------------------------------------------------------------
(* Calls made from inside subscriber callbacks (CreateStateStore and *)
(* CreateStore)                                                          *)

\* A call runs to its end before the next one starts; a callback runs inside
\* the call that notifies it and may itself call the store.  The run of one
\* call is computed on a context c: the fields the call and the callbacks it
\* reaches read and write (data, pathCache, dependencyCache, subscribers,
\* pauseDevTools), the devTools.send calls made so far (sent), the callbacks
\* invoked so far (calls), and whether an exception is propagating (threw).
\*
\* What the callbacks do:
\*   "c1", "c2"  nothing but being invoked
\*   "w"         store.set('p.a', 5)
\*   "s"         subscribes "c2" to 'u'
\*   "x"         unsubscribes "c2" from 'u'
\* "w", "s" and "x" are subscribed to 'u.a' only: none of them changes the
\* Set that is being iterated when it runs, and none is reached from a call
\* made by a callback.  Each invocation is recorded with the State Tree the
\* callback finds (seen) and the number of devTools.send calls made before it
\* (sends).

Writer == "w"
Subscriber == "s"
Unsubscriber == "x"

\* The path "w" writes, the path "s" and "x" subscribe to
WrittenPath == S2(p, a)
WrittenValue == Num(5)
SubscribedPath == S1(u)

\* sendToDevTools(action, path, value) of CreateStore; CreateStateStore has
\* no such statement
Re_send(c, action, path, value) ==
    IF instanceOf = "CreateStore"
    THEN [c EXCEPT !.sent = @ \o sendToDevTools(devTools, c.pause, action,
                                                path, value, c.data)]
    ELSE c

RECURSIVE Re_call(_, _, _)
RECURSIVE Re_invoke(_, _, _, _)
RECURSIVE Re_forEachCallback(_, _, _, _)
RECURSIVE Re_forEachPath(_, _, _)
RECURSIVE Re_forEachEntry(_, _, _)

\* callback(): the invocation is recorded, then the callback's body runs
Re_invoke(c, path, callback, depth) ==
    LET c1 == [c EXCEPT !.calls = Append(@, [path |-> path, cb |-> callback,
                                             depth |-> depth,
                                             seen |-> c.data,
                                             sends |-> Len(c.sent)])]
    IN CASE callback = Writer ->
                Re_call(c1, [op |-> "set", path |-> WrittenPath,
                             value |-> WrittenValue, fn |-> "none",
                             notify |-> TRUE], depth + 1)
         [] callback = Subscriber ->
                [c1 EXCEPT !.subscribers =
                               addSubscriber(@, SubscribedPath, "c2")]
         [] callback = Unsubscriber ->
                [c1 EXCEPT !.subscribers =
                               removeSubscriber(@, SubscribedPath, "c2")]
         [] OTHER -> c1

\* for (const callback of subscribers) callback(): an exception ends the loop
Re_forEachCallback(c, path, callbacks, depth) ==
    IF c.threw \/ callbacks = <<>>
    THEN c
    ELSE Re_forEachCallback(Re_invoke(c, path, Head(callbacks), depth),
                            path, Tail(callbacks), depth)

\* notifySubscribers(path)
Re_notifySubscribers(c, path, depth) ==
    Re_forEachCallback(c, path, subscribersOf(c.subscribers, path), depth)

\* notifySubscribers over the paths of an array or of a dependency Set
Re_forEachPath(c, paths, depth) ==
    IF c.threw \/ paths = <<>>
    THEN c
    ELSE Re_forEachPath(Re_notifySubscribers(c, Head(paths), depth),
                        Tail(paths), depth)

\* this.subscribers.forEach(...) after the callbacks of entry i, at path, have
\* run: the Map is the one the callbacks change, an entry added during the
\* loop is visited and the entries deleted before the current one move it
Re_nextEntry(c, path, i, depth) ==
    Re_forEachEntry(c,
                    IF entryOf(c.subscribers, path) = 0
                    THEN i
                    ELSE entryOf(c.subscribers, path) + 1,
                    depth)

\* this.subscribers.forEach((_, path) => ...) from entry i on
Re_forEachEntry(c, i, depth) ==
    IF c.threw \/ i > Len(c.subscribers)
    THEN c
    ELSE Re_nextEntry(Re_notifySubscribers(c, c.subscribers[i].path, depth),
                      c.subscribers[i].path, i, depth)

\* notifyNestedSubscribers(path)
Re_notifyNestedSubscribers(c, path, depth) ==
    Re_forEachPath(c,
                   <<path>> \o getCachedPath(c.pathCache, path).parentPaths,
                   depth)

\* notifyDependencies(path)
Re_notifyDependencies(c, path, depth) ==
    Re_forEachPath(c,
                   IF path \in DOMAIN c.dependencyCache
                   THEN c.dependencyCache[path]
                   ELSE <<>>,
                   depth)

\* The notify branch of a call: subscribers.forEach in reset,
\* notifyNestedSubscribers(path) then notifyDependencies(path) in the others
Re_notify(c, call, depth) ==
    IF call.op = "reset"
    THEN Re_forEachEntry(c, 1, depth)
    ELSE Re_notifyDependencies(
             Re_notifyNestedSubscribers(c, call.path, depth),
             call.path, depth)

\* getCachedPath(path) at the head of set, update and remove
Re_getCachedPath(c, path) ==
    [c EXCEPT !.pathCache = pathCacheAfter(c.pathCache, path),
              !.dependencyCache = dependencyCacheAfter(c.dependencyCache,
                                                       c.pathCache, path)]

\* The statements of set, update and remove from the assignment to
\* sendToDevTools: c is the context after getCachedPath, r what the
\* assignment does.  The result is the context they leave, and whether the
\* call goes on to its notify branch.
Re_assigned(c, r, call, action, value) ==
    IF r.returned
    THEN [c |-> c, goesOn |-> FALSE]
    ELSE IF r.threw
    THEN [c |-> [c EXCEPT !.data = r.node, !.threw = TRUE], goesOn |-> FALSE]
    ELSE [c |-> Re_send([c EXCEPT !.data = r.node], action, call.path, value),
          goesOn |-> call.notify]

\* The statements of set, update, remove or reset up to the notify branch
Re_assign(c, call) ==
    CASE call.op = "set" ->
           Re_assigned(Re_getCachedPath(c, call.path),
                       setData(c.data, fallbackData, initialData,
                               c.pathCache, <<>>, call.path, call.value)
                           @@ [returned |-> FALSE],
                       call, SET, call.value)
      [] call.op = "update" ->
           Re_assigned(Re_getCachedPath(c, call.path),
                       updateData(c.data, fallbackData, initialData,
                                  c.pathCache, <<>>, call.path, call.fn,
                                  call.value),
                       call, UPDATE, [fn |-> call.fn, value |-> call.value])
      [] call.op = "remove" ->
           Re_assigned(Re_getCachedPath(c, call.path),
                       removeData(c.data, fallbackData, initialData,
                                  c.pathCache, <<>>, call.path)
                           @@ [threw |-> FALSE],
                       call, REMOVE, Undef)
      [] OTHER ->
           \* reset(notify)
           [c |-> Re_send([c EXCEPT !.data = resetData(initialData)],
                          RESET, <<>>, Undef),
            goesOn |-> call.notify]

\* The notify branch of a call, after its assignment r
Re_afterAssign(r, call, depth) ==
    IF r.goesOn THEN Re_notify(r.c, call, depth) ELSE r.c

\* One call of set, update, remove or reset, made by the program (depth 0) or
\* by a callback: the assignment, then the notify branch
Re_call(c, call, depth) == Re_afterAssign(Re_assign(c, call), call, depth)

\* The end of applyDevToolsState, called inside the try of
\* handleDevToolsMessage: an exception of a callback skips the last
\* statement and is caught
Re_afterNotifyAll(c) ==
    IF c.threw
    THEN [c EXCEPT !.threw = FALSE]
    ELSE [c EXCEPT !.pause = FALSE]

\* applyDevToolsState(state)
Re_applyDevToolsState(c, state) ==
    Re_afterNotifyAll(
        Re_forEachEntry([c EXCEPT !.pause = TRUE, !.data = deepClone(state)],
                        1, 0))

\* handleDevToolsMessage(message)
Re_handleDevToolsMessage(c, message) ==
    IF message.type = "DISPATCH"
    THEN IF message.payload.type \in {"JUMP_TO_ACTION", "JUMP_TO_STATE"}
         THEN IF JSONparse(message.state).threw
              THEN c
              ELSE Re_applyDevToolsState(c, JSONparse(message.state).value)
         ELSE IF message.payload.type = "RESET"
         THEN Re_call(c, [op |-> "reset", path |-> <<>>, value |-> Undef,
                          fn |-> "none", notify |-> TRUE], 0)
         ELSE c
    ELSE c

\* Constructor arguments
ReConfigs ==
    {[initialData |-> Field(u, Field(a, Num(30))),
      fallbackData |-> Field(u, Field(a, Num(0))),
      devTools |-> "store"],
     \* { u: { a: 30 }, p: 31 }
     [initialData |-> Put(Field(u, Field(a, Num(30))), S1(p), Num(31)),
      fallbackData |-> Field(u, Field(a, Num(0))),
      devTools |-> "store"]}

\* Paths the program writes: 'u', 'u.a', 'u.p.a'
RePaths == {S1(u), S2(u, a), S3(u, p, a)}

\* Values the program writes: 1, { a: 5 }
ReValues == {Num(1), Field(a, Num(5))}

\* The subscriptions the program makes
ReSubscriptions ==
    {[path |-> S1(u), cb |-> "c1"], [path |-> S2(u, a), cb |-> "c1"],
     [path |-> S2(p, a), cb |-> "c1"], [path |-> S1(u), cb |-> "c2"],
     [path |-> S2(u, a), cb |-> Writer],
     [path |-> S2(u, a), cb |-> Subscriber],
     [path |-> S2(u, a), cb |-> Unsubscriber]}

\* Messages the bridge pushes: the two jumps to { u: { a: 7 } }, a jump to
\* { u: { a: 7 }, p: 31 }, a jump to no JSON text, RESET
ReMessages ==
    {[type |-> "DISPATCH", payload |-> [type |-> t, text |-> NotJSON],
      state |-> JSONstringify(Field(u, Field(a, Num(7))))] :
        t \in {"JUMP_TO_ACTION", "JUMP_TO_STATE"}}
    \cup {[type |-> "DISPATCH",
           payload |-> [type |-> "JUMP_TO_STATE", text |-> NotJSON],
           state |-> JSONstringify(Put(Field(u, Field(a, Num(7))), S1(p),
                                       Num(31)))],
          [type |-> "DISPATCH",
           payload |-> [type |-> "JUMP_TO_STATE", text |-> NotJSON],
           state |-> NotJSON],
          [type |-> "DISPATCH",
           payload |-> [type |-> "RESET", text |-> NotJSON],
           state |-> NotJSON]}

\* The context a call of the program starts with
Context ==
    [data |-> data, pathCache |-> pathCache,
     dependencyCache |-> dependencyCache, subscribers |-> subscribers,
     pause |-> pauseDevTools, sent |-> <<>>, calls |-> <<>>, threw |-> FALSE]

ReNoCall ==
    [op |-> "new", path |-> <<>>, value |-> Undef, fn |-> "none",
     notify |-> FALSE, threw |-> FALSE, written |-> Undef,
     reached |-> FALSE]

ReSnapshot ==
    [data |-> data, pathCache |-> pathCache,
     dependencyCache |-> dependencyCache, subscribers |-> subscribers,
     pauseDevTools |-> pauseDevTools]

\* The constructor of either class; the page has the extension
Re_Init ==
    /\ instanceOf \in {"CreateStateStore", "CreateStore"}
    /\ NotKeyed
    /\ NotScoped
    /\ \E cfg \in ReConfigs :
        /\ config = cfg
        /\ data = deepClone(OrEmpty(cfg.initialData))
        /\ initialData = deepClone(OrEmpty(cfg.initialData))
        /\ fallbackData = deepClone(OrEmpty(cfg.fallbackData))
        /\ devTools = IF instanceOf = "CreateStore"
                      THEN setupDevTools(cfg.devTools, TRUE)
                      ELSE Null
        /\ prev = [data |-> deepClone(OrEmpty(cfg.initialData)),
                   pathCache |-> <<>>, dependencyCache |-> <<>>,
                   subscribers |-> <<>>, pauseDevTools |-> FALSE]
    /\ pauseDevTools = FALSE
    /\ sent = <<>>
    /\ pathCache = <<>>
    /\ propertyCache = <<>>
    /\ dependencyCache = <<>>
    /\ subscribers = <<>>
    /\ calls = <<>>
    /\ fnArgs = <<>>
    /\ last = ReNoCall
    /\ resets = 0
    /\ released = {}
    /\ steps = 0

\* The fields a context holds, after the call that ran on it; call is the
\* record of that call
Re_End(c, call) ==
    /\ steps < MaxSteps
    /\ steps' = steps + 1
    /\ prev' = ReSnapshot
    /\ data' = c.data
    /\ pathCache' = c.pathCache
    /\ dependencyCache' = c.dependencyCache
    /\ subscribers' = c.subscribers
    /\ pauseDevTools' = c.pause
    /\ sent' = c.sent
    /\ calls' = c.calls
    /\ fnArgs' = <<>>
    /\ last' = [call EXCEPT !.threw = c.threw]
    /\ UNCHANGED <<initialData, fallbackData, propertyCache, config, resets,
                   released, instanceOf, devTools>>
    /\ UNCHANGED <<keyedVars, scopedVars>>

\* A call of set, update, remove or reset made by the program.  r is what its
\* assignment does: the State Tree it leaves (written), and whether the call
\* got past it to the statements that follow (reached).
Re_Mutate(call, r) ==
    Re_End(Re_call(Context, call, 0),
           [ReNoCall EXCEPT !.op = call.op, !.path = call.path,
              !.value = call.value, !.fn = call.fn, !.notify = call.notify,
              !.written = r.node, !.reached = ~r.threw /\ ~r.returned])

\* set(path, value, notify)
Re_Set(path, value, notify) ==
    LET r == setData(data, fallbackData, initialData, pathCache, <<>>, path,
                     value)
    IN Re_Mutate([op |-> "set", path |-> path, value |-> value,
                  fn |-> "none", notify |-> notify],
                 [node |-> r.node, threw |-> r.threw, returned |-> FALSE])

\* update(path, prev => prev + 1, notify)
Re_Update(path, notify) ==
    LET r == updateData(data, fallbackData, initialData, pathCache, <<>>,
                        path, "inc", Undef)
    IN /\ \A i \in 1..Len(r.args) : r.args[i].k # "obj"
       /\ Re_Mutate([op |-> "update", path |-> path, value |-> Undef,
                     fn |-> "inc", notify |-> notify],
                    [node |-> r.node, threw |-> r.threw,
                     returned |-> r.returned])

\* remove(path, notify)
Re_Remove(path, notify) ==
    LET r == removeData(data, fallbackData, initialData, pathCache, <<>>,
                        path)
    IN Re_Mutate([op |-> "remove", path |-> path, value |-> Undef,
                  fn |-> "none", notify |-> notify],
                 [node |-> r.node, threw |-> FALSE, returned |-> r.returned])

\* reset(notify)
Re_Reset(notify) ==
    Re_Mutate([op |-> "reset", path |-> <<>>, value |-> Undef, fn |-> "none",
               notify |-> notify],
              [node |-> resetData(initialData), threw |-> FALSE,
               returned |-> FALSE])

\* The subscribe function use(path) hands to useSyncExternalStore
Re_Subscribe(subscription) ==
    Re_End([Context EXCEPT !.subscribers =
               addSubscriber(@, subscription.path, subscription.cb)],
           [ReNoCall EXCEPT !.op = "subscribe", !.path = subscription.path])

\* The listener given to devTools.subscribe receives a message
Re_HandleDevToolsMessage(message) ==
    /\ devTools # Null
    /\ Re_End(Re_handleDevToolsMessage(Context, message),
              [ReNoCall EXCEPT !.op = "message",
                 !.path = message.payload.type,
                 !.written =
                     IF message.payload.type = "RESET"
                     THEN resetData(initialData)
                     ELSE IF JSONparse(message.state).threw
                     THEN data
                     ELSE deepClone(JSONparse(message.state).value)])

Re_Next ==
    \/ \E path \in RePaths, value \in ReValues, notify \in BOOLEAN :
           Re_Set(path, value, notify)
    \/ \E path \in RePaths, notify \in BOOLEAN : Re_Update(path, notify)
    \/ \E path \in RePaths, notify \in BOOLEAN : Re_Remove(path, notify)
    \/ \E notify \in BOOLEAN : Re_Reset(notify)
    \/ \E subscription \in ReSubscriptions : Re_Subscribe(subscription)
    \/ \E message \in ReMessages : Re_HandleDevToolsMessage(message)

SpecReentrant == Re_Init /\ [][Re_Next]_vars

-----------------------------------------------------------------------------
(* Vocabulary of the claims *)

\* Q is a strict dot-prefix of P (Q is an ancestor path of P)
IsAncestor(Q, P) ==
    /\ Len(Q) < Len(P)
    /\ P[Len(Q) + 1] = Dot
    /\ SubSeq(P, 1, Len(Q)) = Q

\* The ancestor paths of P
Ancestors(P) == {SubSeq(P, 1, i - 1) : i \in {j \in 1..Len(P) : P[j] = Dot}}

\* The segment of P that follows its ancestor Q
NextSegment(P, Q) == Head(split(SubSeq(P, Len(Q) + 2, Len(P))))

\* The value a tree holds at the end of a chain of segments: what walking
\* the segments one mapping at a time finds, undefined where the walk fails
RECURSIVE At(_, _)
At(tree, segments) ==
    IF segments = <<>> THEN tree
    ELSE IF tree.k = "obj" /\ Head(segments) \in DOMAIN tree.f
    THEN At(tree.f[Head(segments)], Tail(segments))
    ELSE Undef

ValueAt(tree, P) == At(tree, split(P))

\* What get(path) returns now, and what it returned when the last call started
GetNow(path) ==
    get(data, fallbackData, initialData, pathCache, propertyCache, path)
GetBefore(path) ==
    get(prev.data, fallbackData, initialData, prev.pathCache, propertyCache, path)

\* The last call invoked callback cb as a subscriber of path Q
Invoked(Q, cb) == \E i \in 1..Len(calls) : calls[i] = [path |-> Q, cb |-> cb]

\* cb was subscribed to Q when the last call started
WasSubscribed(Q, cb) == SeqHas(subscribersOf(prev.subscribers, Q), cb)

-----------------------------------------------------------------------------
(* C1 *)

\* C1 (as claimed): after set(P, v) with a defined v, for a path P of any
\* depth and whether or not P's ancestors existed, get(P) returns v and get(Q)
\* returns, for every ancestor path Q of P, a mapping holding P's next segment.
C1_SetThenGetAnyDepth ==
    (last.op = "set" /\ ~last.threw) =>
        /\ GetNow(last.path) = last.value
        /\ \A Q \in Ancestors(last.path) :
               /\ GetNow(Q).k = "obj"
               /\ NextSegment(last.path, Q) \in DOMAIN GetNow(Q).f

-----------------------------------------------------------------------------
(* C2 *)

\* C2 (as claimed): when the State Tree holds no defined value at P, get(P)
\* returns the value the Fallback Tree holds at exactly P, undefined if it
\* holds none, wherever the State Tree walk stopped.
C2_GetFallsBackAtExactPath ==
    (last.op = "get" /\ ValueAt(data, last.path) = Undef) =>
        last.result = ValueAt(fallbackData, last.path)

-----------------------------------------------------------------------------
(* C3 *)

Mutations == {"set", "update", "remove"}

\* The last call was an update or a remove that took effect
TookEffect == ~last.returned /\ ~last.threw

\* C3 (as claimed): a notifying set(P, v), and a notifying update(P, ..) or
\* remove(P) that takes effect, invokes every callback that was subscribed to
\* P or to an ancestor path of P when the call was made.
C3_AncestorBubbleUp ==
    (/\ last.op \in Mutations
     /\ last.notify
     /\ last.op \in {"update", "remove"} => TookEffect) =>
        \A Q \in Ancestors(last.path) \cup {last.path}, cb \in Callbacks :
            WasSubscribed(Q, cb) => Invoked(Q, cb)

-----------------------------------------------------------------------------
(* C4 *)

\* C4 (as claimed, for set on the single-object store): a notifying
\* set(P, newWholeSubtree) invokes every callback subscribed to a path Q that
\* has P as an ancestor path and was resolved before the call.
C4_DescendantFanOut ==
    (last.op = "set" /\ last.notify /\ last.value.k = "obj") =>
        \A Q \in DOMAIN prev.pathCache, cb \in Callbacks :
            (IsAncestor(last.path, Q) /\ WasSubscribed(Q, cb)) => Invoked(Q, cb)

-----------------------------------------------------------------------------
(* C5 *)

\* Q is neither P, nor an ancestor path of P, nor a descendant path of P
Unrelated(Q, P) == Q # P /\ ~IsAncestor(Q, P) /\ ~IsAncestor(P, Q)

\* C5: a set, update or remove on P invokes no callback as a subscriber of a
\* path unrelated to P, invokes no callback that is subscribed to unrelated
\* paths only, and leaves get(Q) as it was for every path Q unrelated to P.
C5_ExactPathScoping ==
    last.op \in Mutations =>
        /\ \A i \in 1..Len(calls) : ~Unrelated(calls[i].path, last.path)
        /\ \A cb \in Callbacks :
               (\A R \in Paths : WasSubscribed(R, cb) => Unrelated(R, last.path))
                   => \A i \in 1..Len(calls) : calls[i].cb # cb
        /\ \A Q \in Paths :
               Unrelated(Q, last.path) => GetNow(Q) = GetBefore(Q)

-----------------------------------------------------------------------------
(* C6 *)

\* What get(path) returned immediately after construction
GetAtConstruction(path) ==
    get(OrEmpty(config.initialData), OrEmpty(config.fallbackData),
        OrEmpty(config.initialData), <<>>, <<>>, path)

-----------------------------------------------------------------------------
(* C7 *)

\* C7: reset() with notify = true invokes every callback subscribed to any
\* path when it is called.
C7_ResetBroadcast ==
    (last.op = "reset" /\ last.notify) =>
        \A i \in 1..Len(prev.subscribers) :
            \A j \in 1..Len(prev.subscribers[i].cbs) :
                Invoked(prev.subscribers[i].path, prev.subscribers[i].cbs[j])

\* A notifying reset with callbacks on two paths, neither ever resolved
C7_Witness ==
    /\ last.op = "reset" /\ last.notify
    /\ Len(prev.subscribers) = 2
    /\ pathCache = <<>>
    /\ Len(calls) = 2

-----------------------------------------------------------------------------
(* C8 *)

\* The value the tree holds at the parent of P (the tree itself for a path
\* of one segment)
ParentValue(tree, P) == At(tree, SubSeq(split(P), 1, Len(split(P)) - 1))

\* C8: update(P, valueOrFn) on a path whose parent container is missing from
\* the State Tree changes nothing in the tree, invokes no callback, does not
\* call the transformation, raises nothing and leaves get(P) as it was.
C8_UpdateNoOp ==
    (last.op = "update" /\ IsNullish(ParentValue(prev.data, last.path))) =>
        /\ data = prev.data
        /\ calls = <<>>
        /\ fnArgs = <<>>
        /\ ~last.threw
        /\ GetNow(last.path) = GetBefore(last.path)

\* A notifying update with a transformation on a subscribed path of three
\* segments whose ancestors are all missing
C8_Witness ==
    /\ last.op = "update" /\ last.notify /\ last.fn # "none"
    /\ last.path = S3(u, p, a)
    /\ prev.data = EmptyObj
    /\ WasSubscribed(last.path, "c1")

-----------------------------------------------------------------------------
(* C9 *)

\* The last call was an update of a path whose parent container exists
UpdatedInContainer ==
    last.op = "update" /\ ParentValue(prev.data, last.path).k = "obj"

\* What the last update was to store at its path
UpdateResult ==
    IF last.fn = "none"
    THEN last.value
    ELSE applyFn(last.fn, ValueAt(prev.data, last.path))

\* C9 (as claimed): when P's parent container exists, update(P, f) calls f
\* once with the State Tree's value at P and stores its result, update(P, v)
\* stores v, and get(P) then returns what was stored.
C9_UpdateStoresAndGetReturns ==
    UpdatedInContainer =>
        /\ last.fn # "none" => fnArgs = <<ValueAt(prev.data, last.path)>>
        /\ last.fn = "none" => fnArgs = <<>>
        /\ ValueAt(data, last.path) = UpdateResult
        /\ GetNow(last.path) = UpdateResult

\* C9 (amended): when P's parent container exists, update(P, f) calls f
\* once with the State Tree's value at P and stores its result, update(P, v)
\* stores v, and get(P) then returns what was stored if that is a defined
\* value.
C9_UpdateStores ==
    UpdatedInContainer =>
        /\ last.fn # "none" => fnArgs = <<ValueAt(prev.data, last.path)>>
        /\ last.fn = "none" => fnArgs = <<>>
        /\ ValueAt(data, last.path) = UpdateResult
        /\ UpdateResult # Undef => GetNow(last.path) = UpdateResult

\* update('u.a', prev => prev + 1) on a store holding u.a = 30 and a fallback
\* for u.a: get('u.a') returns 31
C9_Witness ==
    /\ UpdatedInContainer
    /\ last.fn = "inc" /\ last.path = S2(u, a)
    /\ fnArgs = <<Num(30)>>
    /\ ValueAt(fallbackData, last.path) = Num(0)
    /\ GetNow(last.path) = Num(31)

-----------------------------------------------------------------------------
(* C10 *)

\* C10 (as claimed): remove(P) on a path whose parent container exists leaves
\* no value at P in the State Tree, so that get(P) returns the Fallback
\* Tree's value at P, undefined if it has none; on a path whose parent
\* container is missing it changes nothing and invokes no callback.
C10_RemoveThenGet ==
    last.op = "remove" =>
        /\ ParentValue(prev.data, last.path).k = "obj" =>
               /\ ValueAt(data, last.path) = Undef
               /\ GetNow(last.path) = ValueAt(fallbackData, last.path)
        /\ IsNullish(ParentValue(prev.data, last.path)) =>
               /\ data = prev.data
               /\ calls = <<>>

-----------------------------------------------------------------------------
(* C13 *)

\* C13 (as claimed): no call to get, set, update or remove raises an
\* exception, whatever the State Tree holds at the ancestors of the path.
C13_NoCallRaises ==
    last.op \in {"get", "set", "update", "remove"} => ~last.threw

-----------------------------------------------------------------------------
(* C11 *)

\* The last call was a notifying set, update, remove, reset or clear that
\* took effect
NotifyingMutation ==
    /\ last.op \in Mutations \cup {"reset", "clear"}
    /\ last.notify
    /\ TookEffect

\* The last call invoked cb as a key-list ("keys") or size ("size") subscriber
CountInvoked(of, cb) ==
    \E i \in 1..Len(countCalls) : countCalls[i] = [of |-> of, cb |-> cb]

\* C11: once the unsubscribe function of a subscription has been called (and
\* the same subscription has not been made again), no call of either store
\* invokes the callback for that subscription.
C11_UnsubscribedNeverInvoked ==
    \A r \in released :
        /\ r.of = "path" => ~Invoked(r.path, r.cb)
        /\ r.of # "path" => ~CountInvoked(r.of, r.cb)

\* A notifying mutation that took effect on the path of an unsubscribed
\* callback, or as a full broadcast
C11_Witness ==
    /\ NotifyingMutation
    /\ \E r \in released :
           /\ r.of = "path"
           /\ \/ last.op \in {"reset", "clear"}
              \/ IsStateStore /\ last.op = "set" /\ r.path = last.path
              \/ IsMapStore /\ last.op = "set" /\ r.path = last.key

-----------------------------------------------------------------------------
(* C12 *)

\* C12 (as claimed): a set, update, remove, reset or clear called with
\* notify = false invokes no path subscriber, no key-list subscriber and no
\* size subscriber.
C12_SilentMutation ==
    (last.op \in Mutations \cup {"reset", "clear"} /\ ~last.notify) =>
        calls = <<>> /\ countCalls = <<>>

-----------------------------------------------------------------------------
(* C14 *)

\* What key(mapKey).get(path) returns now
KeyGetNow(mapKey, path) ==
    MapStore_get(data, fallbackData, initialData, pathCache, propertyCache,
                 mapKey, path)

\* A sequence without repetitions
NoRepeat(s) == \A i, j \in 1..Len(s) : s[i] = s[j] => i = j

\* C14 (as claimed): after key(k).set(v), whatever the characters of k,
\* key(k).get() returns v and key(k).get(f) returns v's field f, getKeys()
\* holds k once and keeps the insertion order, and getSize() is the number
\* of keys; after key(k).remove() of a present k, getKeys() no longer holds
\* k and getSize() is one less.
C14_KeyedSetGet ==
    /\ last.op = "set" =>
           /\ KeyGetNow(last.key, <<>>) = last.value
           /\ \A f \in EntryPaths \ {<<>>} :
                  KeyGetNow(last.key, f) = ValueAt(last.value, f)
           /\ getKeys(data) = IF MapHas(prev.data, last.key)
                              THEN getKeys(prev.data)
                              ELSE Append(getKeys(prev.data), last.key)
           /\ NoRepeat(getKeys(data))
           /\ getSize(data) = Len(getKeys(data))
    /\ (last.op = "remove" /\ MapHas(prev.data, last.key)) =>
           /\ ~SeqHas(getKeys(data), last.key)
           /\ getSize(data) = getSize(prev.data) - 1

\* The same, for keys that hold no dot
C14_DotFreeKeys ==
    (\A i \in 1..Len(last.key) : last.key[i] # Dot) => C14_KeyedSetGet

-----------------------------------------------------------------------------
(* C15 *)

\* The last call invoked every key-list and every size subscriber
AllCountInvoked ==
    /\ \A i \in 1..Len(keysSubscribers) :
           CountInvoked("keys", keysSubscribers[i])
    /\ \A i \in 1..Len(sizeSubscribers) :
           CountInvoked("size", sizeSubscribers[i])

\* The last call was key(k).set, key(k).update or key(k).remove with the
\* default notify
KeyedCall(op) == IsMapStore /\ last.op = op /\ last.notify

\* C15: key(k).set(v) on an absent k and key(k).remove() on a present k
\* invoke every key-list and every size subscriber; key(k).set(v) on a
\* present k and key(k).update(field, ..) invoke none of them; so these
\* calls invoke them exactly when getKeys() changes.
C15_CountOnKeySetChange ==
    /\ (KeyedCall("set") /\ ~MapHas(prev.data, last.key)) => AllCountInvoked
    /\ (KeyedCall("remove") /\ MapHas(prev.data, last.key)) => AllCountInvoked
    /\ (KeyedCall("set") /\ MapHas(prev.data, last.key)) => countCalls = <<>>
    /\ KeyedCall("update") => countCalls = <<>>
    /\ (KeyedCall("set") \/ KeyedCall("update") \/ KeyedCall("remove")) =>
           IF getKeys(data) # getKeys(prev.data)
           THEN AllCountInvoked
           ELSE countCalls = <<>>

\* A key-list and a size subscriber are subscribed, and a key is added
C15_Witness ==
    /\ KeyedCall("set")
    /\ ~MapHas(prev.data, last.key)
    /\ keysSubscribers # <<>>
    /\ sizeSubscribers # <<>>
    /\ Len(countCalls) = 2

-----------------------------------------------------------------------------
(* C16 *)

\* The last call was key(k).update or key(k).remove on a k that the
\* collection did not hold
OnAbsentKey ==
    /\ IsMapStore
    /\ last.op \in {"update", "remove"}
    /\ ~MapHas(prev.data, last.key)

\* C16: key(k).update(path, ..) and key(k).remove() on a k that is not in
\* the collection create no entry, leave the collection, getKeys() and
\* getSize() as they were, and invoke no path, key-list or size subscriber.
C16_AbsentKeyNoOp ==
    OnAbsentKey =>
        /\ ~MapHas(data, last.key)
        /\ data = prev.data
        /\ getKeys(data) = getKeys(prev.data)
        /\ getSize(data) = getSize(prev.data)
        /\ ~last.threw
        /\ calls = <<>>
        /\ countCalls = <<>>

\* A notifying update on an absent key, while the key and the key list
\* have subscribers
C16_Witness ==
    /\ OnAbsentKey
    /\ last.op = "update"
    /\ last.notify
    /\ subscribersOf(subscribers, last.key) # <<>>
    /\ keysSubscribers # <<>>

-----------------------------------------------------------------------------
(* C17 *)

\* The entries the collection held immediately after construction
EntriesAtConstruction == OrNewMap(deepCloneMap(config.initialData))

\* The last call invoked every callback subscribed to any path when it
\* was made
AllPathsInvoked ==
    \A i \in 1..Len(prev.subscribers) :
        \A j \in 1..Len(prev.subscribers[i].cbs) :
            Invoked(prev.subscribers[i].path, prev.subscribers[i].cbs[j])

\* After clear() the collection is empty and key(k).get() is undefined for
\* the keys of K
ClearedFor(K) ==
    (IsMapStore /\ last.op = "clear") =>
        /\ getSize(data) = 0
        /\ getKeys(data) = <<>>
        /\ \A k \in K : KeyGetNow(k, <<>>) = Undef

\* clear() with notify = true invokes every subscriber there is
ClearBroadcast ==
    (IsMapStore /\ last.op = "clear" /\ last.notify) =>
        AllPathsInvoked /\ AllCountInvoked

\* clear() leaves the Initial Snapshot alone, so that a later reset()
\* restores the entries of construction
ResetAfterClear ==
    IsMapStore =>
        /\ initialData = EntriesAtConstruction
        /\ last.op = "reset" => data = EntriesAtConstruction

\* C17 (as claimed): after clear() getSize() is 0, getKeys() is empty and
\* key(k).get() is undefined for every k; a notifying clear() invokes every
\* subscribed path callback and every key-list and size subscriber; and a
\* reset() made after clear() restores exactly the entries of construction.
C17_ClearEmpties == ClearedFor(Keys) /\ ClearBroadcast /\ ResetAfterClear

\* The same, key(k).get() being asked for the keys without a dot only
C17_DotFreeKeys ==
    /\ ClearedFor({k \in Keys : \A i \in 1..Len(k) : k[i] # Dot})
    /\ ClearBroadcast
    /\ ResetAfterClear

-----------------------------------------------------------------------------
(* C18 *)

\* C18: useStore() called where no Provider encloses the component throws
\* and returns no store; called inside a mounted Provider it throws nothing
\* and returns the store that this Provider constructed.
C18_UseStoreOutsideScope ==
    (IsScopedStore /\ last.op \notin {"new", "mount"}) =>
        IF scope.in = 0
        THEN scope.threw /\ scope.store = NoObject /\ last.op = "useStore"
        ELSE ~scope.threw /\ scope.store = mounted[scope.in]

\* useStore() outside every Provider, while two Providers are mounted
C18_Witness ==
    /\ IsScopedStore
    /\ last.op = "useStore"
    /\ scope.in = 0
    /\ Len(mounted) = MaxScopes

-----------------------------------------------------------------------------
(* C19 *)

\* The addresses held by the fields of the store at s
FieldsOf(s) ==
    {heap[s].data, heap[s].initialData, heap[s].fallbackData,
     heap[s].pathCache, heap[s].propertyCache, heap[s].dependencyCache,
     heap[s].subscribers}

\* No object is a field of two stores, or of a store and of the props
NoSharedObject ==
    /\ \A i, j \in 1..Len(mounted) :
           i # j => FieldsOf(mounted[i]) \cap FieldsOf(mounted[j]) = {}
    /\ \A i \in 1..Len(mounted) :
           FieldsOf(mounted[i])
               \cap {props.initialData, props.fallbackData} = {}

\* What get(path) returns on a store with the fields v
GetOn(v, path) ==
    get(v.data, v.fallbackData, v.initialData, v.pathCache, v.propertyCache,
        path)

-----------------------------------------------------------------------------
(* C20 *)

\* The last call was the bridge pushing an instruction that the store
\* applied: a jump carrying a state, or a reset
BridgeInstruction ==
    /\ IsDevStore
    /\ last.op = "message"
    /\ last.applied

\* The instruction was a jump to a state or to an action
BridgeJump ==
    /\ BridgeInstruction
    /\ last.message.payload.type \in {"JUMP_TO_ACTION", "JUMP_TO_STATE"}

\* The store applied the instruction and invoked every subscribed callback
AppliedAndNotified ==
    /\ data = IF BridgeJump
              THEN JSONparse(last.message.state).value
              ELSE initialData
    /\ AllPathsInvoked

\* C20 (as claimed): when the bridge pushes a jump-to-state, a jump-to-action
\* or a reset, the store applies it and invokes its subscribers, and makes
\* no devTools.send call.
C20_EchoSuppressed ==
    BridgeInstruction => AppliedAndNotified /\ sent = <<>>

\* The same for the jumps alone
C20_JumpNotEchoed ==
    BridgeJump => AppliedAndNotified /\ sent = <<>>

\* A reset pushed by the bridge is applied and notified
C20_ResetApplied ==
    BridgeInstruction => AppliedAndNotified

-----------------------------------------------------------------------------
(* C22 *)

\* The last call was the bridge pushing a jump whose state cannot be parsed,
\* or an action message whose payload cannot be parsed
MalformedInstruction ==
    /\ IsDevStore
    /\ last.op = "message"
    /\ \/ /\ last.message.type = "DISPATCH"
          /\ last.message.payload.type \in {"JUMP_TO_ACTION", "JUMP_TO_STATE"}
          /\ ~last.message.state.valid
       \/ /\ last.message.type = "ACTION"
          /\ ~last.message.payload.text.valid

\* C22: a malformed instruction is caught and logged inside the handler: no
\* exception escapes, the State Tree, the caches and the registry are as
\* they were, no callback is invoked, nothing is sent, and pauseDevTools
\* stays lowered, so that the next mutation is applied and sent as ever.
C22_MalformedIgnored ==
    MalformedInstruction =>
        /\ ~last.threw
        /\ last.logged
        /\ ~last.applied
        /\ data = prev.data
        /\ pathCache = prev.pathCache
        /\ dependencyCache = prev.dependencyCache
        /\ subscribers = prev.subscribers
        /\ calls = <<>>
        /\ sent = <<>>
        /\ ~pauseDevTools

\* An unparsable jump reaches a store that has subscribers and whose State
\* Tree is no longer the one of construction
C22_Witness ==
    /\ MalformedInstruction
    /\ last.message.type = "DISPATCH"
    /\ subscribers # <<>>
    /\ data # initialData

-----------------------------------------------------------------------------
(* C23 *)

\* The last call was get(P) with a null in P's parent slot of the State Tree
ParentSlotIsNull ==
    /\ last.op = "get"
    /\ Len(split(last.path)) > 1
    /\ ParentValue(data, last.path) = Null

\* C23 (as claimed): get(P) returns the value the State Tree holds at
\* exactly P when it is defined, and the value the Fallback Tree holds at
\* exactly P otherwise; never the value of an ancestor of P, also when P's
\* parent slot holds a value that is no container.
C23_GetExactPathOnly ==
    last.op = "get" =>
        last.result = IF ValueAt(data, last.path) # Undef
                      THEN ValueAt(data, last.path)
                      ELSE ValueAt(fallbackData, last.path)

\* The part of it about a null parent slot
C23_NullParentSlot ==
    ParentSlotIsNull => last.result = ValueAt(fallbackData, last.path)

-----------------------------------------------------------------------------
(* C26 *)

NoRepeatIn(s) == \A i, j \in 1..Len(s) : s[i] = s[j] => i = j

\* C26: the Subscriber Registry never holds a path mapped to an empty callback
\* set, never holds a path twice and never holds a callback twice under one
\* path, and no notification invokes a callback twice for one path.
C26_RegistryWellFormed ==
    /\ \A i \in 1..Len(subscribers) : Len(subscribers[i].cbs) > 0
    /\ \A i \in 1..Len(subscribers) : NoRepeatIn(subscribers[i].cbs)
    /\ NoRepeatIn([i \in 1..Len(subscribers) |-> subscribers[i].path])
    /\ NoRepeatIn(calls)

\* The last callback of a path was released and the path's entry is gone
C26_Witness ==
    /\ last.op = "unsubscribe"
    /\ Len(subscribers) < Len(prev.subscribers)

\* A callback subscribed again to a path it already had: the registry is as
\* it was
DuplicateSubscribe ==
    /\ last.op = "subscribe"
    /\ Len(subscribers) > 0
    /\ subscribers = prev.subscribers

-----------------------------------------------------------------------------
(* C27 *)

\* A + '.' is a prefix of P: A is a strictly shorter dot-prefix of P
StrictDotPrefix(A, P) ==
    /\ Len(A) + 1 <= Len(P)
    /\ SubSeq(P, 1, Len(A) + 1) = A \o <<Dot>>

\* The segments s[1..n] joined with dots
RECURSIVE joined(_, _)
joined(s, n) ==
    IF n = 1 THEN s[1] ELSE joined(s, n - 1) \o <<Dot>> \o s[n]

\* The cached parse of P is the one its segments determine
PureParse(P) ==
    LET s == split(P)
        n == Len(s)
        info == pathCache[P]
    IN /\ info.parentKeys = SubSeq(s, 1, n - 1)
       /\ info.currentKey = s[n]
       /\ Len(info.parentPaths) = n - 1
       /\ \A i \in 1..(n - 1) : info.parentPaths[i] = joined(s, i)

\* The Dependency Index holds, for each path, the resolved paths below it
ExactDependencies ==
    /\ \A A \in DOMAIN dependencyCache :
           /\ NoRepeatIn(dependencyCache[A])
           /\ {dependencyCache[A][i] : i \in 1..Len(dependencyCache[A])}
                  = {P \in DOMAIN pathCache : StrictDotPrefix(A, P)}
    /\ \A P \in DOMAIN pathCache : \A k \in 1..(Len(P) - 1) :
           StrictDotPrefix(SubSeq(P, 1, k), P)
               => SubSeq(P, 1, k) \in DOMAIN dependencyCache

\* Every entry the two structures had before the last call is still there,
\* as it was
NothingRemoved ==
    /\ \A P \in DOMAIN prev.pathCache :
           P \in DOMAIN pathCache /\ pathCache[P] = prev.pathCache[P]
    /\ \A A \in DOMAIN prev.dependencyCache :
           /\ A \in DOMAIN dependencyCache
           /\ \A i \in 1..Len(prev.dependencyCache[A]) :
                  dependencyCache[A][i] = prev.dependencyCache[A][i]

\* The last call resolved a path that was resolved already
ResolvedAgain ==
    /\ last.op \in {"get", "set", "update", "remove"}
    /\ last.path \in DOMAIN prev.pathCache

\* C27: every cached parse is the pure parse of its path, the Dependency
\* Index maps each path to exactly the resolved paths it is a strict
\* dot-prefix of, a call on a resolved path leaves both structures as they
\* were, and no call removes an entry of either.
C27_PathCacheAndDependencies ==
    /\ \A P \in DOMAIN pathCache : PureParse(P)
    /\ ExactDependencies
    /\ NothingRemoved
    /\ ResolvedAgain =>
           /\ pathCache = prev.pathCache
           /\ dependencyCache = prev.dependencyCache

\* 'u.p.a' was resolved, it is registered under 'u' and 'u.p', and the last
\* call resolved again a path the cache held
C27_Witness ==
    /\ ResolvedAgain
    /\ S3(u, p, a) \in DOMAIN pathCache
    /\ SeqHas(dependencyCache[S1(u)], S3(u, p, a))
    /\ SeqHas(dependencyCache[S2(u, p)], S3(u, p, a))

-----------------------------------------------------------------------------
(* C28 *)

\* The Fallback Tree as it is now, read off the heap
FallbackNow == TreeOf(heap, fallbackData, MaxDepth)

\* The Fallback Tree as the constructor made it
FallbackAtConstruction == deepClone(OrEmpty(config.fallbackData))

\* C28: after any sequence of get, set, update, remove and reset calls every
\* value of the Fallback Tree is the one supplied at construction.
C28_FallbackNeverChanged == FallbackNow = FallbackAtConstruction

-----------------------------------------------------------------------------
(* C29 *)

\* C29: in the keyed-collection store the cached key list served to the
\* key-list readers equals getKeys() after any sequence of key(k).set,
\* key(k).update, key(k).remove, reset and clear calls, whatever their notify
\* flags.
C29_CachedKeysCurrent == cachedKeys = getKeys(data)

\* The cached key list is recomputed by every remove, reset and clear that
\* takes effect with notify true
C29_RecomputedWhenNotifying ==
    (last.op \in {"remove", "reset", "clear"} /\ last.notify /\ ~last.returned)
        => cachedKeys = getKeys(data)

-----------------------------------------------------------------------------
(* C30 *)

\* What walking path through the current trees gives: get(path) with nothing
\* located beforehand
WalkNow(path) ==
    Graph_get(heap, data, fallbackData, initialData, pathCache, <<>>, path)

\* A get returns what the current tree holds, and a reset leaves a tree
\* equal to the Initial Snapshot
LocatedInCurrentTree ==
    /\ last.op = "get" => last.result = WalkNow(last.path)
    /\ last.op = "reset" =>
           /\ TreeOf(heap, data, MaxDepth) = TreeOf(heap, initialData, MaxDepth)
           /\ data # prev.data

\* The last call is a set that was made after a reset and raised nothing
SetAfterReset == last.op = "set" /\ ~last.threw /\ resets > 0

\* C30: get, update and remove operate on the current State Tree: a get
\* returns what walking its path through the current tree gives, a reset
\* leaves the Initial Snapshot, and a set(P, v) made after a reset is visible
\* to get(P).
C30_NoStaleContainer ==
    /\ LocatedInCurrentTree
    /\ SetAfterReset => WalkNow(last.path) = last.value

\* The same, for the sets of a path of at most two segments
C30_NoStaleContainerShallow ==
    /\ LocatedInCurrentTree
    /\ (SetAfterReset /\ Len(split(last.path)) <= 2)
           => WalkNow(last.path) = last.value

\* A get made after a reset and a set found the value in the new tree
C30_Witness ==
    /\ last.op = "get"
    /\ resets > 0
    /\ data # Ref(1)
    /\ last.result = Num(31)

-----------------------------------------------------------------------------
(* C21 *)

\* The store has a debug bridge
Bridged == instanceOf = "CreateStore" /\ devTools # Null

\* The last call is a mutation made by the program that took effect
TookEffectAtTop ==
    /\ last.op \in {"set", "update", "remove", "reset"}
    /\ last.reached
    /\ last.written # prev.data

\* The invocations of a callback whose set('p.a', 5) took effect: 'p' did not
\* hold a number
NestedSets ==
    {i \in 1..Len(calls) :
        calls[i].cb = Writer /\ At(calls[i].seen, <<S1(p)>>).k # "num"}

\* The devTools.send calls that report a set of 'p.a'
NestedSends == {k \in 1..Len(sent) : sent[k].action.path = WrittenPath}

\* Each set made by a callback was sent once, with the tree it left
NestedMutationsSent ==
    /\ Cardinality(NestedSends) = Cardinality(NestedSets)
    /\ \A k \in NestedSends :
           At(sent[k].state, <<S1(p), S1(a)>>) = WrittenValue

\* The mutation the program made was sent once, first, with the tree it
\* left, before any callback ran
TopMutationSent ==
    TookEffectAtTop =>
        /\ Len(sent) >= 1
        /\ sent[1].action.path = last.path
        /\ sent[1].state = last.written
        /\ Cardinality({k \in 1..Len(sent) :
                            sent[k].action.path = last.path}) = 1
        /\ \A i \in 1..Len(calls) : calls[i].sends >= 1

\* C21: with a debug bridge, every mutation that takes effect, made by the
\* program or by a subscriber callback, with notify true or false, is sent
\* to the bridge exactly once with the State Tree it left, and before any
\* callback of that mutation runs.
C21_EveryMutationSent ==
    Bridged => TopMutationSent /\ NestedMutationsSent

\* The same, for the calls that are not a message of the bridge and start
\* with pauseDevTools lowered
C21_SentOutsideJumps ==
    (Bridged /\ last.op # "message" /\ ~prev.pauseDevTools)
        => TopMutationSent /\ NestedMutationsSent

\* A mutation with a callback that wrote 'p.a': two sends, the program's
\* first
C21_Witness ==
    /\ Bridged
    /\ TookEffectAtTop
    /\ NestedSets # {}
    /\ Len(sent) = 2

\* pauseDevTools is lowered between two calls
C21_PauseLowered == ~pauseDevTools

-----------------------------------------------------------------------------
(* C24 *)

\* What get(path) returns in a callback that finds the State Tree seen
GetIn(seen, path) ==
    get(seen, fallbackData, initialData, pathCache, propertyCache, path)

\* The callbacks the call of the program invoked itself
OwnCalls == {i \in 1..Len(calls) : calls[i].depth = 0}

\* The last call is a mutation of the program that notified a callback
NotifiedMutation ==
    /\ last.op \in {"set", "update", "remove", "reset"}
    /\ last.notify
    /\ last.reached
    /\ OwnCalls # {}

\* C24: a callback invoked because of a set, update, remove or reset finds
\* the change made: get(P) in a callback notified by set(P, v) returns v, and
\* get in a callback notified by reset returns the construction-time value.
C24_MutationPrecedesNotification ==
    NotifiedMutation =>
        \A i \in OwnCalls :
            /\ last.op = "set" => GetIn(calls[i].seen, last.path) = last.value
            /\ last.op = "reset" =>
                   \A path \in RePaths :
                       GetIn(calls[i].seen, path) = GetAtConstruction(path)

\* Every callback of a mutation finds, at the paths the program uses, what
\* the assignment of the mutation left
C24_CallbackSeesAssignment ==
    NotifiedMutation =>
        \A i \in OwnCalls : \A path \in RePaths :
            GetIn(calls[i].seen, path) = GetIn(last.written, path)

-----------------------------------------------------------------------------
(* C25 *)

\* The last call is a set, update or remove of the program that reached its
\* notify branch
OuterMutation ==
    /\ last.op \in {"set", "update", "remove"}
    /\ last.notify
    /\ last.reached

\* The paths the outer mutation notifies: its path, the ancestors of its
\* path, and the descendants the Dependency Index held for it
NotifiedPaths ==
    {last.path} \cup Ancestors(last.path)
        \cup (IF last.path \in DOMAIN prev.dependencyCache
              THEN {prev.dependencyCache[last.path][i] :
                       i \in 1..Len(prev.dependencyCache[last.path])}
              ELSE {})

\* A callback ran that called the store, subscribed or unsubscribed
Reentered ==
    \E i \in 1..Len(calls) :
        calls[i].cb \in {Writer, Subscriber, Unsubscriber}

\* cb was unsubscribed from path Q by a callback of this notification
UnsubscribedInside(Q, cb) ==
    /\ Q = SubscribedPath
    /\ cb = "c2"
    /\ \E i \in 1..Len(calls) : calls[i].cb = Unsubscriber

\* Invocations of cb as a subscriber of Q by the outer mutation itself
OwnInvocations(Q, cb) ==
    {i \in OwnCalls : calls[i].path = Q /\ calls[i].cb = cb}

\* Every callback subscribed when the outer mutation started, and not
\* unsubscribed by a callback, was invoked once by the outer mutation
NoneLost ==
    \A Q \in NotifiedPaths :
        \A n \in 1..Len(subscribersOf(prev.subscribers, Q)) :
            LET cb == subscribersOf(prev.subscribers, Q)[n]
            IN ~UnsubscribedInside(Q, cb) =>
                   Cardinality(OwnInvocations(Q, cb)) = 1

\* Each set('p.a', 5) made by a callback wrote the value and invoked the
\* subscribers of 'p.a'
NestedCompleted ==
    (\E i \in 1..Len(calls) : calls[i].cb = Writer) =>
        /\ At(data, <<S1(p), S1(a)>>) = WrittenValue
        /\ \A n \in 1..Len(subscribersOf(subscribers, WrittenPath)) :
               Cardinality({i \in 1..Len(calls) :
                               /\ calls[i].depth = 1
                               /\ calls[i].path = WrittenPath
                               /\ calls[i].cb =
                                      subscribersOf(subscribers,
                                                    WrittenPath)[n]})
                   = Cardinality({i \in 1..Len(calls) :
                                     calls[i].cb = Writer})

\* C25: when a callback notified by a mutation of P sets an unrelated path,
\* or subscribes or unsubscribes a callback of another path, the nested call
\* completes as an ordinary call and every callback subscribed to P, to an
\* ancestor of P or to an indexed descendant of P when the mutation started,
\* and not unsubscribed meanwhile, is invoked exactly once by the mutation.
C25_ReentrancyLosesNothing ==
    (OuterMutation /\ Reentered) => NoneLost /\ NestedCompleted

\* The same, for the mutations in which no call raised an exception
C25_NothingLostUnlessRaised ==
    (OuterMutation /\ Reentered /\ ~last.threw) => NoneLost /\ NestedCompleted

\* A callback wrote 'p.a' during a notification that went on to invoke
\* another callback
C25_Witness ==
    /\ OuterMutation
    /\ ~last.threw
    /\ \E i, j \in OwnCalls : i < j /\ calls[i].cb = Writer

-----------------------------------------------------------------------------
(* C31 *)

\* The snapshot get(Q) returns now, and the one it returned when the last
\* call started: a primitive, or the reference of an object.  Object.is, the
\* comparison useSyncExternalStore applies to consecutive snapshots, is
\* equality of these slots: no address of the heap is used twice.
SnapshotNow(Q) ==
    Graph_get(heap, data, fallbackData, initialData, pathCache, <<>>, Q)
SnapshotBefore(Q) ==
    Graph_get(prev.heap, prev.data, fallbackData, initialData, prev.pathCache,
              <<>>, Q)

\* The last call is a set, update or remove that changed the value at its
\* path
ChangedAtPath ==
    /\ last.op \in {"set", "update", "remove"}
    /\ ~last.threw
    /\ ~last.returned
    /\ TreeOf(heap, SnapshotNow(last.path), MaxDepth)
           # TreeOf(prev.heap, SnapshotBefore(last.path), MaxDepth)

\* C31: if set, update or remove on path P changes the value at P, then for
\* every proper ancestor Q of P the snapshot get(Q) returns after the mutation
\* differs by reference identity from the snapshot get(Q) returned before it.
C31_AncestorSnapshotDiffers ==
    ChangedAtPath =>
        \A Q \in Ancestors(last.path) : SnapshotNow(Q) # SnapshotBefore(Q)

\* The assignment is made in place: where the State Tree held an object at
\* 'u' before a set, update or remove below 'u', get('u') returns that same
\* object afterwards
C31_AncestorObjectKept ==
    (/\ last.op \in {"set", "update", "remove"}
     /\ S1(u) \in Ancestors(last.path)
     /\ RefProp(prev.heap, prev.data, S1(u)).k = "ref")
        => SnapshotNow(S1(u)) = SnapshotBefore(S1(u))

\* A set, update or remove below 'u' changed the value at its path and the
\* tree under 'u', and left the object get('u') returns the same
C31_SameSnapshotOfChangedTree ==
    /\ ChangedAtPath
    /\ S1(u) \in Ancestors(last.path)
    /\ SnapshotNow(S1(u)) = SnapshotBefore(S1(u))
    /\ TreeOf(heap, SnapshotNow(S1(u)), MaxDepth)
           # TreeOf(prev.heap, SnapshotBefore(S1(u)), MaxDepth)

=============================================================================
